---- MODULE Spec2Model ----
(***************************************************************************)
(* Model of the YouTube channel analytics service (ytca-go-services):      *)
(* the cache gate of the analytics / trends endpoints, the snapshot store  *)
(* (channel_engagement table) and the analytics / trends engines.          *)
(*                                                                         *)
(* Spec        the YouTubeAPI handlers over the SQLite Cloud table, with   *)
(*             concurrent requests and a clock; database and upstream      *)
(*             answer                                                      *)
(* SpecEngines one call of an engine (Server / YouTubeClient, YouTubeAPI)  *)
(*             on a list of videos                                         *)
(* SpecStore   one StoreEngagement then GetLatestEngagement of a payload   *)
(*             text, in the sqlite3 CLI and the SQLite Cloud Database      *)
(* SpecRank    the bodies of the four engines and the engagement score     *)
(*             over a list of converted videos                             *)
(* SpecVideos  the two video-list handlers over the provider's records     *)
(*             and a parsed filter                                         *)
(* SpecFetch   the requests of one fetch of a channel's videos, each       *)
(*             answered with a success or a failure, over a chain of pages *)
(* SpecFaults  the cache-gated handlers when the database and the provider *)
(*             may return errors                                           *)
(* SpecResolve YouTubeClient.ExtractChannelIDFromURL and its lookups       *)
(* SpecParse   the query parsing of the two video-list handlers            *)
(* SpecScore   Video.EngagementScore on two videos that differ in one      *)
(*             count, in rounded floating point                            *)
(* SpecRoll    the trends engines on lists longer than the rolling windows *)
(* SpecFrame   StoreEngagement calls of both Database variants on a table  *)
(*             with rows of several channels                               *)
(*                                                                         *)
(* Time is a count of instants; InstantsPerDay instants make one UTC       *)
(* calendar day, so that formatting a timestamp as a calendar date         *)
(* ("2006-01-02") drops the time of day.                                   *)
(* A float64 is an exact fraction, or NaN / +Inf when the divisor is 0.    *)
(***************************************************************************)
EXTENDS Integers, Sequences, FiniteSets, TLC

\* ------------------------------------------------------------------ bounds
MaxRequests == 2
MaxTicks == 1
MaxUploads == 1
MaxCount == 1
MaxListLen == 3
MaxTextLen == 3
MaxFreeLen == 2
MaxRankLen == 6
MaxRawLen == 2
MaxFetch == 3

\* ------------------------------------------------------- program constants
TopN == 5
InstantsPerDay == 2
WindowSize == 7
WeekDays == 7
BackWindow == 10
MonthDays == 30
ZeroTime == -1000
DefaultMaxVideos == 50
\* maxResults and the size of a detail batch (50 in the program), scaled down
PageSize == 2
BatchSize == PageSize

VARIABLES now, store, req, lastWrite, call, trip

vars == <<now, store, req, lastWrite, call, trip>>

\* --------------------------------------------------------------- helpers
Min(a, b) == IF a < b THEN a ELSE b

RECURSIVE GCD(_, _)
GCD(a, b) == IF b = 0 THEN a ELSE GCD(b, a % b)

RECURSIVE SumInts(_)
SumInts(s) == IF s = <<>> THEN 0 ELSE Head(s) + SumInts(Tail(s))

\* float64 values: an exact fraction in lowest terms, NaN or +Inf
NaN == [kind |-> "NaN", n |-> 0, d |-> 0]
PosInf == [kind |-> "+Inf", n |-> 1, d |-> 0]
Float(a, b) == [kind |-> "num", n |-> a \div GCD(a, b), d |-> b \div GCD(a, b)]
FloatZero == Float(0, 1)
\* float64(a) / float64(b) for a >= 0, b >= 0: IEEE division, no panic
FloatDiv(a, b) == IF b = 0 THEN (IF a = 0 THEN NaN ELSE PosInf) ELSE Float(a, b)
IsFinite(f) == f.kind = "num"

\* t.Format("2006-01-02"): the calendar day of an instant
FormatDate(t) == IF t >= 0 THEN t \div InstantsPerDay
                 ELSE 0 - ((InstantsPerDay - 1 - t) \div InstantsPerDay)

\* dynamically typed provider values: any(x).(T) succeeds only on type T
U64(n) == [type |-> "uint64", val |-> n]
Str(n) == [type |-> "string", val |-> n]
TimeVal(t) == [type |-> "time", val |-> t]

\* if v, ok := any(x).(uint64); ok { count = int64(v) }   (count starts at 0)
AssertUint64(x) == IF x.type = "uint64" THEN x.val ELSE 0

\* any(x).(string) then time.Parse(RFC3339), else any(x).(time.Time); a string
\* that does not parse (val < ZeroTime stands for it) leaves the zero time
ParsePublishedAt(x) ==
    IF x.type = "string"
    THEN (IF x.val > ZeroTime THEN x.val ELSE ZeroTime)
    ELSE IF x.type = "time" THEN x.val ELSE ZeroTime

\* models.Video built from one provider record
NormalizeVideo(v) ==
    [ID |-> v.Id,
     Views |-> AssertUint64(v.ViewCount),
     Likes |-> AssertUint64(v.LikeCount),
     Comments |-> AssertUint64(v.CommentCount),
     UploadDate |-> ParsePublishedAt(v.PublishedAt)]

NormalizeAll(raw) == [i \in DOMAIN raw |-> NormalizeVideo(raw[i])]

\* sort.Slice(s, less) with less(i, j) = key[i] > key[j], as at every call:
\* some permutation of s in descending key order; the order of elements of
\* equal key is unspecified (the sort is not stable)
RECURSIVE SortOrders(_, _)
SortOrders(idx, key) ==
    IF idx = {} THEN {<<>>}
    ELSE UNION {{<<i>> \o rest : rest \in SortOrders(idx \ {i}, key)} :
                    i \in {m \in idx : \A j \in idx : ~(key[j] > key[m])}}

SortSlice(s, key) ==
    {[i \in DOMAIN s |-> s[p[i]]] : p \in SortOrders(DOMAIN s, key)}

Take(s, n) == SubSeq(s, 1, Min(n, Len(s)))

\* Video.EngagementScore()
EngagementScore(v) ==
    IF v.Views = 0 THEN 0 ELSE 1 * v.Views + 2 * v.Likes + 3 * v.Comments

\* the sort keys of  EngagementScore() > EngagementScore()  and of
\* UploadDate.After(UploadDate)
ScoreKeys(videos) == [i \in DOMAIN videos |-> EngagementScore(videos[i])]
DateKeys(videos) == [i \in DOMAIN videos |-> videos[i].UploadDate]

SumViews(videos) == SumInts([i \in DOMAIN videos |-> videos[i].Views])
SumLikes(videos) == SumInts([i \in DOMAIN videos |-> videos[i].Likes])
\* variant: the comment total accumulates the likes
SumComments_AsLikes(videos) == SumInts([i \in DOMAIN videos |-> videos[i].Likes])
SumComments(videos) == SumInts([i \in DOMAIN videos |-> videos[i].Comments])

\* a formatted date string, or the empty string of an unset field
DateStr(t) == [empty |-> FALSE, day |-> FormatDate(t)]
EmptyStr == [empty |-> TRUE, day |-> 0]

\* the nil result of an engine, the empty body of a response
NoResult == [type |-> "none"]

\* the round trip of a payload text before it starts (see the text stores)
NoTrip ==
    [variant |-> "", payload |-> <<>>, hasRow |-> FALSE, column |-> <<>>,
     stage |-> "", storeErr |-> FALSE, readErr |-> FALSE, got |-> <<>>]

\* call is one engine call made outside the cache gate: the counts of the
\* items the provider lists (list) and the channel's videoCount, then, once
\* made, the function, its typed input, the list it aggregated over (videos),
\* its error and result and, for a handler of Server, the response
NoCall ==
    [fn |-> "", list |-> <<>>, videoCount |-> 0, input |-> <<>>, videos |-> <<>>,
     err |-> FALSE, out |-> NoResult, status |-> 0, body |-> NoResult]

\* ------------------------------------------------- analytics engine (SDK path)
\* the body of YouTubeAPI.getChannelAnalytics over the converted videos, at
\* instant t; one element per order sort.Slice may leave the videos in
API_AnalyticsOf(channelID, videos, t) ==
    LET n == Len(videos)
        totalViews == SumViews(videos)
        totalLikes == SumLikes(videos)
        totalComments == SumComments(videos)
        averageViews == IF n > 0 THEN FloatDiv(totalViews, n) ELSE FloatZero
        likeToViewRatio ==
            IF n > 0 /\ totalViews > 0 THEN FloatDiv(totalLikes, totalViews)
            ELSE FloatZero
        commentToViewRatio ==
            IF n > 0 /\ totalViews > 0 THEN FloatDiv(totalComments, totalViews)
            ELSE FloatZero
        sumKey == [i \in DOMAIN videos |->
                      videos[i].Views + videos[i].Likes + videos[i].Comments]
    IN  {[type |-> "analytics",
          ChannelID |-> channelID,
          TotalVideos |-> n,
          AverageViews |-> averageViews,
          LikeToViewRatio |-> likeToViewRatio,
          CommentToViewRatio |-> commentToViewRatio,
          TopEngagingVideos |-> Take(s, TopN),
          TimeRange |-> [StartDate |-> IF n > 0 THEN DateStr(s[n].UploadDate) ELSE EmptyStr,
                         EndDate |-> IF n > 0 THEN DateStr(s[1].UploadDate) ELSE EmptyStr],
          Timestamp |-> t] : s \in SortSlice(videos, sumKey)}

\* YouTubeAPI.getChannelAnalytics over the videos getAllVideos returned
API_getChannelAnalytics(channelID, allVideos, t) ==
    API_AnalyticsOf(channelID, NormalizeAll(allVideos), t)

\* ---------------------------------------------------- trends engine (SDK path)
PerformancePoint(v) ==
    [UploadDate |-> v.UploadDate, Views |-> v.Views, Likes |-> v.Likes,
     Comments |-> v.Comments,
     LikesToViews |-> IF v.Views > 0 THEN FloatDiv(v.Likes, v.Views) ELSE FloatZero,
     CommentsToViews |-> IF v.Views > 0 THEN FloatDiv(v.Comments, v.Views) ELSE FloatZero]

\* forward window [i, min(n, i + windowSize)) at 0-based index i
ForwardRolling(videos) ==
    [k \in DOMAIN videos |->
        LET end == Min(k - 1 + WindowSize, Len(videos))
            window == SubSeq(videos, k, end)
        IN  [UploadIndex |-> k - 1,
             AverageViews |-> IF Len(window) > 0
                              THEN FloatDiv(SumViews(window), Len(window))
                              ELSE FloatZero]]

\* the videos published after instant t0
PublishedAfter(videos, t0) == SelectSeq(videos, LAMBDA v : v.UploadDate > t0)

FixedBucketTrend(period, vids) ==
    LET c == Len(vids)
    IN  [Period |-> period,
         AverageViews |-> IF c > 0 THEN FloatDiv(SumViews(vids), c) ELSE FloatZero,
         AverageLikes |-> IF c > 0 THEN FloatDiv(SumLikes(vids), c) ELSE FloatZero,
         AverageComments |-> IF c > 0 THEN FloatDiv(SumComments(vids), c) ELSE FloatZero]

\* now.AddDate(0, -1, 0) lies one calendar month back: 28 to 31 days
MonthLengths == 28..31

\* the body of YouTubeAPI.getChannelTrends over the converted videos, at
\* instant t
API_TrendsOf(channelID, converted, t) ==
    LET weekAgo == t - WeekDays * InstantsPerDay
    IN  UNION {UNION {{
            [type |-> "trends",
             ChannelID |-> channelID,
             TrendingVideos |-> IF Len(videos) > 0 THEN Take(ranked, TopN) ELSE <<>>,
             PerformanceOverTime |-> [i \in DOMAIN videos |-> PerformancePoint(videos[i])],
             RollingAverages |-> ForwardRolling(videos),
             UploadFrequencyWeekly |->
                 <<[Period |-> "week", Count |-> Len(PublishedAfter(videos, weekAgo))]>>,
             UploadFrequencyMonthly |->
                 <<[Period |-> "month",
                    Count |-> Len(PublishedAfter(videos, t - m * InstantsPerDay))]>>,
             EngagementTrendsWeekly |->
                 <<FixedBucketTrend("week", PublishedAfter(videos, weekAgo))>>,
             EngagementTrendsMonthly |->
                 <<FixedBucketTrend("month",
                                    PublishedAfter(videos, t - m * InstantsPerDay))>>,
             Timestamp |-> t] : m \in MonthLengths}
          : ranked \in SortSlice(videos, ScoreKeys(videos))}
          : videos \in SortSlice(converted, DateKeys(converted))}

\* YouTubeAPI.getChannelTrends over the videos getAllVideos returned
API_getChannelTrends(channelID, apiVideos, t) ==
    API_TrendsOf(channelID, NormalizeAll(apiVideos), t)

\* ----------------------------------------------- video listing (REST path)
\* YouTubeClient.GetChannelVideos over the items the provider lists for the
\* uploads playlist: the first MaxVideos ids, their details converted,
\* filtered by the minimum counts and sorted by the filter's order
SortKeys(sortBy, videos) ==
    CASE sortBy = "views" -> [i \in DOMAIN videos |-> videos[i].Views]
      [] sortBy = "likes" -> [i \in DOMAIN videos |-> videos[i].Likes]
      [] OTHER -> DateKeys(videos)

\* the threshold test and the sort switch, over the converted videos
Client_FilterSort(converted, filter) ==
    LET kept == SelectSeq(converted,
                    LAMBDA v : ~(v.Views < filter.MinViews \/ v.Likes < filter.MinLikes))
    IN  IF filter.SortBy \in {"views", "likes", "recency"}
        THEN SortSlice(kept, SortKeys(filter.SortBy, kept))
        ELSE {kept}

Client_GetChannelVideos(items, filter) ==
    Client_FilterSort(NormalizeAll(Take(items, filter.MaxVideos)), filter)

\* the filter both engines of the REST path build from the channel's videoCount
RecencyFilter(videoCount) ==
    [SortBy |-> "recency", MaxVideos |-> videoCount, MinViews |-> 0, MinLikes |-> 0]

\* --------------------------------------------- analytics engine (REST path)
\* YouTubeClient.GetChannelAnalytics: an error on an empty list; the ratios
\* divide by the total views without a test
Client_AnalyticsOf(channelID, videos) ==
        IF Len(videos) = 0
        THEN {[err |-> TRUE, videos |-> videos, out |-> NoResult]}
        ELSE LET n == Len(videos)
                 totalViews == SumViews(videos)
             IN  {[err |-> FALSE,
                   videos |-> videos,
                   out |-> [type |-> "analytics",
                            ChannelID |-> channelID,
                            TotalVideos |-> n,
                            AverageViews |-> FloatDiv(totalViews, n),
                            LikeToViewRatio |-> FloatDiv(SumLikes(videos), totalViews),
                            CommentToViewRatio |->
                                FloatDiv(SumComments(videos), totalViews),
                            TopEngagingVideos |-> Take(s, TopN),
                            TimeRange |-> [StartDate |-> DateStr(s[n].UploadDate),
                                           EndDate |-> DateStr(s[1].UploadDate)],
                            Timestamp |-> ZeroTime]] :
                    s \in SortSlice(videos, ScoreKeys(videos))}

Client_GetChannelAnalytics(channelID, videoCount, items) ==
    UNION {Client_AnalyticsOf(channelID, videos) :
            videos \in Client_GetChannelVideos(items, RecencyFilter(videoCount))}

\* ------------------------------------------------ trends engine (REST path)
\* variant: the mean of all the uploads up to the index
BackwardRolling_WholePrefix(videos) ==
    [k \in DOMAIN videos |->
        [UploadIndex |-> k - 1,
         AverageViews |-> FloatDiv(SumViews(SubSeq(videos, 1, k)), k)]]

\* backward window [max(0, i - window + 1), i] at 0-based index i
BackwardRolling(videos) ==
    [k \in DOMAIN videos |->
        LET start == IF k - BackWindow + 1 < 1 THEN 1 ELSE k - BackWindow + 1
        IN  [UploadIndex |-> k - 1,
             AverageViews |-> FloatDiv(SumViews(SubSeq(videos, start, k)),
                                       k - start + 1)]]

\* UploadDate.ISOWeek() and UploadDate.Format("2006-01"): the week and the
\* month of the calendar day (day 0 opens a week and a month)
WeekKey(t) == [period |-> "week", index |-> FormatDate(t) \div WeekDays]
MonthKey(t) == [period |-> "month", index |-> FormatDate(t) \div MonthDays]
PeriodKey(period, t) == IF period = "week" THEN WeekKey(t) ELSE MonthKey(t)

\* the entries of a map from bucket key to the videos of the bucket; the
\* slices built by ranging over the map come in no specified order, so the
\* model keeps the set of their entries
BucketKeys(videos, period) ==
    {PeriodKey(period, videos[i].UploadDate) : i \in DOMAIN videos}
\* variant: a bucket also counts the uploads of the earlier buckets
BucketOf_Cumulative(videos, period, k) ==
    SelectSeq(videos, LAMBDA v : PeriodKey(period, v.UploadDate).index <= k.index)
BucketOf(videos, period, k) ==
    SelectSeq(videos, LAMBDA v : PeriodKey(period, v.UploadDate) = k)
UploadFrequencies(videos, period) ==
    {[Period |-> k, Count |-> Len(BucketOf(videos, period, k))] :
        k \in BucketKeys(videos, period)}
EngagementTrends(videos, period) ==
    {LET vids == BucketOf(videos, period, k)
     IN  [Period |-> k,
          AverageViews |-> FloatDiv(SumViews(vids), Len(vids)),
          AverageLikes |-> FloatDiv(SumLikes(vids), Len(vids)),
          AverageComments |-> FloatDiv(SumComments(vids), Len(vids))] :
        k \in BucketKeys(videos, period)}

\* variant: the REST trends engine refuses an empty list as the analytics
\* engine does
Client_GetChannelTrends_ErrOnEmpty(channelID, videoCount, items, t) ==
    {[err |-> Len(videos) = 0, videos |-> videos, out |-> NoResult] :
        videos \in Client_GetChannelVideos(items, RecencyFilter(videoCount))}

\* YouTubeClient.GetChannelTrends at instant t: no result and no error on an
\* empty list
Client_TrendsOf(channelID, videos, t) ==
        IF Len(videos) = 0
        THEN {[err |-> FALSE, videos |-> videos, out |-> NoResult]}
        ELSE     {[err |-> FALSE,
                   videos |-> videos,
                   out |-> [type |-> "trends",
                            ChannelID |-> channelID,
                            TrendingVideos |-> Take(ranked, TopN),
                            PerformanceOverTime |->
                                [i \in DOMAIN videos |-> PerformancePoint(videos[i])],
                            RollingAverages |-> BackwardRolling(videos),
                            UploadFrequencyWeekly |-> UploadFrequencies(videos, "week"),
                            UploadFrequencyMonthly |-> UploadFrequencies(videos, "month"),
                            EngagementTrendsWeekly |-> EngagementTrends(videos, "week"),
                            EngagementTrendsMonthly |-> EngagementTrends(videos, "month"),
                            Timestamp |-> t]] :
                    ranked \in SortSlice(videos, ScoreKeys(videos))}

Client_GetChannelTrends(channelID, videoCount, items, t) ==
    UNION {Client_TrendsOf(channelID, videos, t) :
            videos \in Client_GetChannelVideos(items, RecencyFilter(videoCount))}

\* ------------------------------------------------------ JSON payloads
\* json.Marshal: an object text, or an error on a NaN / Inf float
MarshalOk(a) ==
    a.type = "analytics" =>
        IsFinite(a.AverageViews) /\ IsFinite(a.LikeToViewRatio)
            /\ IsFinite(a.CommentToViewRatio)
Marshal(a) == [syntax |-> "object", object |-> a]
\* a stored text that json.Unmarshal rejects for the target structure
CorruptPayload == [syntax |-> "invalid", object |-> NoResult]
NoPayload == [syntax |-> "none", object |-> NoResult]
\* variant: the decode error is not looked at
UnmarshalOk_Unchecked(p, kind) == TRUE

UnmarshalOk(p, kind) == p.syntax = "object" /\ p.object.type = kind
Unmarshal(p) == p.object

\* ------------------------------------- channel_engagement table (SQLite Cloud)
Channels == {"UC1"}
Kinds == {"analytics", "trends"}
Keys == Channels \X Kinds

NilRow ==
    [id |-> 0, channel_id |-> "", engagement_type |-> "", create_date |-> 0,
     update_date |-> 0, json_response |-> NoPayload]

Matching(rows, ch, kind) ==
    {row \in rows : row.channel_id = ch /\ row.engagement_type = kind}

\* SELECT COUNT(*) ... WHERE channel_id = ? AND engagement_type = ?
SelectCount(rows, ch, kind) == Cardinality(Matching(rows, ch, kind))

\* variant: the table is created without the UNIQUE constraint
UniqueViolation_None(rows, ch, kind) == FALSE

\* CONSTRAINT unique_channel_engagement UNIQUE(channel_id, engagement_type)
UniqueViolation(rows, ch, kind) == Matching(rows, ch, kind) # {}

\* id INTEGER PRIMARY KEY AUTOINCREMENT
NextID(rows) ==
    IF rows = {} THEN 1
    ELSE 1 + (CHOOSE m \in {row.id : row \in rows} : \A row \in rows : row.id <= m)

\* variant: the write on an existing key appends a row instead of updating it
ExecUpdate_Append(rows, ch, kind, json, t) ==
    rows \cup {[id |-> NextID(rows), channel_id |-> ch, engagement_type |-> kind,
                create_date |-> t, update_date |-> t, json_response |-> json]}

\* UPDATE ... SET json_response = ?, update_date = CURRENT_TIMESTAMP WHERE key
ExecUpdate(rows, ch, kind, json, t) ==
    {IF row \in Matching(rows, ch, kind)
     THEN [row EXCEPT !.json_response = json, !.update_date = t]
     ELSE row : row \in rows}

\* INSERT ... (channel_id, engagement_type, json_response); the dates default
\* to CURRENT_TIMESTAMP; the statement fails on a UNIQUE violation
InsertOk(rows, ch, kind) == ~UniqueViolation(rows, ch, kind)

\* variant: the INSERT binds the zero dates of the ChannelEngagement value
\* instead of leaving the columns to their CURRENT_TIMESTAMP default
ExecInsert_ZeroDates(rows, ch, kind, json, t) ==
    IF InsertOk(rows, ch, kind)
    THEN rows \cup {[id |-> NextID(rows), channel_id |-> ch,
                    engagement_type |-> kind, create_date |-> 0,
                    update_date |-> 0, json_response |-> json]}
    ELSE rows

ExecInsert(rows, ch, kind, json, t) ==
    IF InsertOk(rows, ch, kind)
    THEN rows \cup {[id |-> NextID(rows), channel_id |-> ch,
                    engagement_type |-> kind, create_date |-> t,
                    update_date |-> t, json_response |-> json]}
    ELSE rows

\* SELECT ... WHERE key ORDER BY create_date DESC LIMIT 1: no row, or a row
\* of the key with the latest create_date
GetLatestEngagement(rows, ch, kind) ==
    IF Matching(rows, ch, kind) = {} THEN {NilRow}
    ELSE {row \in Matching(rows, ch, kind) :
            \A o \in Matching(rows, ch, kind) : o.create_date <= row.create_date}

\* ------------------------------------------------------------- upstream
\* one *youtube.Video of the SDK: counts are uint64, publishedAt an RFC3339 string
SDKVideo(i) ==
    [Id |-> i, ViewCount |-> U64(i - 1), LikeCount |-> U64(i - 1),
     CommentCount |-> U64(i % 2), PublishedAt |-> Str(i)]

\* what getAllVideos may return for the channel: its first k uploads
ChannelUploads ==
    {[i \in 1..k |-> SDKVideo(i)] : k \in 0..MaxUploads}

\* ------------------------------------------------------------- cache gate
\* req[r] is one HTTP request: its position (pc), the row its cache read
\* returned (seen) and whether that row was updated on the UTC day of the
\* read (seenToday), its locals, its answer (status,
\* body), the number of videos its fetch returned (fetched) and counts of the
\* upstream fetches and StoreEngagement calls it made.
\* lastWrite[k] is the request whose write statement on key k ran last.
Requests == 1..MaxRequests
FirstInstant == 2 * InstantsPerDay - 1
LastInstant == FirstInstant + MaxTicks

IdleRequest ==
    [pc |-> "idle", channelID |-> "", kind |-> "",
     seen |-> NilRow, seenToday |-> FALSE, fetched |-> 0, result |-> NoResult,
     jsonData |-> NoPayload, count |-> 0, fetches |-> 0, stores |-> 0, op |-> "", storeErr |-> FALSE,
     status |-> 0, body |-> NoResult]

\* two instants of one UTC calendar day
SameUTCDay(t1, t2) == t1 \div InstantsPerDay = t2 \div InstantsPerDay

\* variant: the freshness test reads the creation date of the row
IsFromToday_CreateDate(e, t) == FormatDate(e.create_date) = FormatDate(t)

\* the cached data is from today:
\* UpdateDate.UTC().Format("2006-01-02") == time.Now().UTC().Format("2006-01-02")
IsFromToday(e, t) == FormatDate(e.update_date) = FormatDate(t)

Compute(kind, ch, uploads, t) ==
    IF kind = "analytics" THEN API_getChannelAnalytics(ch, uploads, t)
    ELSE API_getChannelTrends(ch, uploads, t)

\* YouTubeAPI.GetChannelAnalytics / GetChannelTrends up to the cache decision:
\* read the latest snapshot; serve it when it is from today and decodes
CacheCheck(r, ch, kind) ==
    /\ req[r].pc = "idle"
    /\ IF r = 1 THEN TRUE ELSE req[r - 1].pc # "idle"
    /\ \E e \in GetLatestEngagement(store, ch, kind) :
        LET hit == /\ e # NilRow
                   /\ IsFromToday(e, now)
                   /\ UnmarshalOk(e.json_response, kind)
            started == [req[r] EXCEPT !.channelID = ch, !.kind = kind, !.seen = e,
                                      !.seenToday = SameUTCDay(e.update_date, now)]
        IN  req' = [req EXCEPT ![r] =
                IF hit
                THEN [started EXCEPT !.pc = "done", !.status = 200,
                                     !.body = Unmarshal(e.json_response)]
                ELSE [started EXCEPT !.pc = "fetch"]]
    /\ UNCHANGED <<now, store, lastWrite, call, trip>>

\* the miss path up to StoreEngagement's first statement: fetch from upstream,
\* compute, json.Marshal (an error answers 500), then ask whether a row of the
\* key exists. The fetch and the computation touch no shared state, so they
\* are taken together with the existence check that follows them
Recompute(r) ==
    /\ req[r].pc = "fetch"
    /\ \E uploads \in ChannelUploads :
        \E res \in Compute(req[r].kind, req[r].channelID, uploads, now) :
            req' = [req EXCEPT ![r] =
                IF MarshalOk(res)
                THEN [@ EXCEPT !.pc = "store_exec", !.fetched = Len(uploads),
                               !.result = res,
                               !.jsonData = Marshal(res), !.fetches = @ + 1,
                               !.stores = @ + 1,
                               !.count = SelectCount(store, req[r].channelID,
                                                     req[r].kind)]
                ELSE [@ EXCEPT !.pc = "done", !.fetched = Len(uploads),
                               !.fetches = @ + 1, !.status = 500]]
    /\ UNCHANGED <<now, store, lastWrite, call, trip>>

\* Database.StoreEngagement, second statement: UPDATE when the count was
\* positive, INSERT otherwise; its error is logged by the handler, which then
\* answers 200 with the computed result
StoreEngagementExec(r) ==
    /\ req[r].pc = "store_exec"
    /\ LET ch == req[r].channelID
           kind == req[r].kind
           update == req[r].count > 0
       IN  /\ store' = IF update
                       THEN ExecUpdate(store, ch, kind, req[r].jsonData, now)
                       ELSE ExecInsert(store, ch, kind, req[r].jsonData, now)
           /\ req' = [req EXCEPT ![r] =
                   [@ EXCEPT !.pc = "done",
                             !.op = IF update THEN "UPDATE" ELSE "INSERT",
                             !.storeErr = ~update /\ ~InsertOk(store, ch, kind),
                             !.status = 200, !.body = req[r].result]]
           /\ lastWrite' = [lastWrite EXCEPT ![<<ch, kind>>] = r]
    /\ UNCHANGED <<now, call, trip>>

\* the clock advances
Tick ==
    /\ now < LastInstant
    /\ now' = now + 1
    /\ UNCHANGED <<store, req, lastWrite, call, trip>>

\* ------------------------------------------------------------ initial state
\* the table outlives the process: a key has no row, a row last updated on an
\* earlier day, or a row of today whose text no longer decodes (written under
\* an older schema); a decodable row of today comes about by a request
LegacyUploads == <<SDKVideo(1), SDKVideo(2)>>
LegacyPayload(ch, kind) ==
    Marshal(CHOOSE res \in Compute(kind, ch, LegacyUploads, 0) : TRUE)

LegacyStates == {"none", "stale", "undecodable"}

LegacyRow(ch, kind, st, id) ==
    [id |-> id, channel_id |-> ch, engagement_type |-> kind, create_date |-> 0,
     update_date |-> IF st = "stale" THEN 0 ELSE InstantsPerDay,
     json_response |-> IF st = "undecodable" THEN CorruptPayload
                       ELSE LegacyPayload(ch, kind)]

\* at most one key has a row when the process starts
LegacyTables ==
    {f \in [Keys -> LegacyStates] : Cardinality({k \in Keys : f[k] # "none"}) <= 1}

KeyID(k) == IF k[2] = "analytics" THEN 1 ELSE 2

Init ==
    /\ now = FirstInstant
    /\ \E f \in LegacyTables :
        store = {LegacyRow(k[1], k[2], f[k], KeyID(k)) : k \in {x \in Keys : f[x] # "none"}}
    /\ req = [r \in Requests |-> IdleRequest]
    /\ lastWrite = [k \in Keys |-> 0]
    /\ call = NoCall
    /\ trip = NoTrip

Next ==
    \/ \E r \in Requests, ch \in Channels, kind \in Kinds : CacheCheck(r, ch, kind)
    \/ \E r \in Requests : Recompute(r)
    \/ \E r \in Requests : StoreEngagementExec(r)
    \/ Tick

Spec == Init /\ [][Next]_vars

\* --------------------------------------------------------- engines, alone
\* the upload instant of the i-th listed item: newest first, a week apart
InputDate(i) == 1 - (i - 1) * WeekDays

\* the counts of the listed items
InputCounts == [views : 0..MaxCount, likes : 0..MaxCount]
InputLists == UNION {[1..k -> InputCounts] : k \in 0..MaxListLen}

\* the items as the SDK hands them over: uint64 counts, RFC3339 string dates
SDKItems(l) ==
    [i \in DOMAIN l |->
        [Id |-> i, ViewCount |-> U64(l[i].views), LikeCount |-> U64(l[i].likes),
         CommentCount |-> U64((l[i].views + l[i].likes) % 2),
         PublishedAt |-> Str(InputDate(i))]]

\* the items as models.VideoListResponse decodes them: string counts,
\* time.Time dates
RESTItems(l) ==
    [i \in DOMAIN l |->
        [Id |-> i, ViewCount |-> Str(l[i].views), LikeCount |-> Str(l[i].likes),
         CommentCount |-> Str((l[i].views + l[i].likes) % 2),
         PublishedAt |-> TimeVal(InputDate(i))]]

\* c.JSON(code, obj): gin sets the status and renders; a render error either
\* panics into the recovery middleware (500) or is recorded after the status
\* line was set, depending on the gin release: an empty body either way
RenderJSON(code, obj) ==
    IF MarshalOk(obj) THEN {[status |-> code, body |-> obj]}
    ELSE {[status |-> c, body |-> NoResult] : c \in {code, 500}}

\* Server.getChannelAnalytics: 400 with the engine's error, else 200
Server_getChannelAnalytics ==
    /\ call.fn = ""
    /\ \E res \in Client_GetChannelAnalytics("UC1", call.videoCount, RESTItems(call.list)) :
        \E rsp \in (IF res.err THEN {[status |-> 400, body |-> NoResult]}
                    ELSE RenderJSON(200, res.out)) :
            call' = [call EXCEPT !.fn = "Server.getChannelAnalytics",
                                 !.input = RESTItems(call.list),
                                 !.videos = res.videos, !.err = res.err,
                                 !.out = res.out, !.status = rsp.status,
                                 !.body = rsp.body]
    /\ UNCHANGED <<now, store, req, lastWrite, trip>>

\* Server.getChannelTrends: 400 with the engine's error, 404 on a nil result,
\* else 200
Server_getChannelTrends ==
    /\ call.fn = ""
    /\ \E res \in Client_GetChannelTrends("UC1", call.videoCount, RESTItems(call.list), now) :
        \E rsp \in (IF res.err THEN {[status |-> 400, body |-> NoResult]}
                    ELSE IF res.out = NoResult
                    THEN {[status |-> 404, body |-> NoResult]}
                    ELSE RenderJSON(200, res.out)) :
            call' = [call EXCEPT !.fn = "Server.getChannelTrends",
                                 !.input = RESTItems(call.list),
                                 !.videos = res.videos, !.err = res.err,
                                 !.out = res.out, !.status = rsp.status,
                                 !.body = rsp.body]
    /\ UNCHANGED <<now, store, req, lastWrite, trip>>

\* YouTubeAPI.getChannelAnalytics applied to a list of the SDK (the engine
\* reads no videoCount: one call per list)
Call_getChannelAnalytics ==
    /\ call.fn = ""
    /\ call.videoCount = Len(call.list)
    /\ \E res \in API_getChannelAnalytics("UC1", SDKItems(call.list), now) :
        call' = [call EXCEPT !.fn = "YouTubeAPI.getChannelAnalytics",
                             !.input = SDKItems(call.list),
                             !.videos = NormalizeAll(SDKItems(call.list)),
                             !.out = res]
    /\ UNCHANGED <<now, store, req, lastWrite, trip>>

\* YouTubeAPI.getChannelTrends applied to a list of the SDK
Call_getChannelTrends ==
    /\ call.fn = ""
    /\ call.videoCount = Len(call.list)
    /\ \E res \in API_getChannelTrends("UC1", SDKItems(call.list), now) :
        call' = [call EXCEPT !.fn = "YouTubeAPI.getChannelTrends",
                             !.input = SDKItems(call.list),
                             !.videos = NormalizeAll(SDKItems(call.list)),
                             !.out = res]
    /\ UNCHANGED <<now, store, req, lastWrite, trip>>

\* the provider lists any of the input lists; the channel's videoCount is
\* the length of the list or, the statistics lagging, one less
InitEngines ==
    /\ now = FirstInstant
    /\ store = {}
    /\ req = [r \in Requests |-> IdleRequest]
    /\ lastWrite = [k \in Keys |-> 0]
    /\ \E l \in InputLists : \E vc \in {Len(l), Len(l) - 1} \cap Nat :
        call = [NoCall EXCEPT !.list = l, !.videoCount = vc]
    /\ trip = NoTrip

NextEngines ==
    \/ Server_getChannelAnalytics
    \/ Server_getChannelTrends
    \/ Call_getChannelAnalytics
    \/ Call_getChannelTrends

SpecEngines == InitEngines /\ [][NextEngines]_vars

\* --------------------------------------- the payload text in the two stores
\* A text is a sequence of characters. trip is one StoreEngagement followed by
\* one GetLatestEngagement on a key, in one of the two Database variants: the
\* payload text handed to StoreEngagement (payload), the json_response
\* column of the key's row (column, with hasRow), the position (stage), and
\* what GetLatestEngagement returned (readErr, got).
\* strings.ReplaceAll(text, "'", "''")
RECURSIVE EscapeQuotes(_)
EscapeQuotes(text) ==
    IF text = <<>> THEN <<>>
    ELSE IF Head(text) = "'" THEN <<"'", "'">> \o EscapeQuotes(Tail(text))
    ELSE <<Head(text)>> \o EscapeQuotes(Tail(text))

\* the value of the SQL string literal '<body>' as SQLite reads it: two quotes
\* stand for one, a single quote ends the literal (ok is then false when text
\* is left over: the statement does not parse)
RECURSIVE ReadLiteral(_)
ReadLiteral(body) ==
    IF body = <<>> THEN [ok |-> TRUE, value |-> <<>>]
    ELSE IF Head(body) = "'"
    THEN (IF Len(body) >= 2 /\ body[2] = "'"
          THEN LET rest == ReadLiteral(Tail(Tail(body)))
               IN  [ok |-> rest.ok, value |-> <<"'">> \o rest.value]
          ELSE [ok |-> FALSE, value |-> <<>>])
    ELSE LET rest == ReadLiteral(Tail(body))
         IN  [ok |-> rest.ok, value |-> <<Head(body)>> \o rest.value]

\* the columns of a row joined by the sqlite3 shell's list separator
RECURSIVE JoinFields(_)
JoinFields(fields) ==
    IF Len(fields) = 0 THEN <<>>
    ELSE IF Len(fields) = 1 THEN fields[1]
    ELSE fields[1] \o <<"|">> \o JoinFields(Tail(fields))

\* strings.Split(line, "|")
RECURSIVE SplitFields(_)
SplitFields(line) ==
    IF line = <<>> THEN <<(<<>>)>>
    ELSE LET rest == SplitFields(Tail(line))
         IN  IF Head(line) = "|" THEN <<(<<>>)>> \o rest
             ELSE <<(<<Head(line)>> \o rest[1])>> \o Tail(rest)

\* strings.TrimSpace
RECURSIVE TrimLeft(_)
TrimLeft(text) ==
    IF text # <<>> /\ Head(text) = " " THEN TrimLeft(Tail(text)) ELSE text
RECURSIVE TrimRight(_)
TrimRight(text) ==
    IF text # <<>> /\ text[Len(text)] = " "
    THEN TrimRight(SubSeq(text, 1, Len(text) - 1)) ELSE text
TrimSpace(text) == TrimRight(TrimLeft(text))

\* the other five columns of the row as the shell prints them
RowPrefix == << <<"1">>, <<"U">>, <<"a">>, <<"0">>, <<"0">> >>

\* sqlite3 CLI variant, StoreEngagement: the escaped payload inside a quoted
\* literal of the UPDATE or INSERT statement the shell then reads
CLI_StoreEngagement(t) ==
    LET lit == ReadLiteral(EscapeQuotes(t.payload))
    IN  IF lit.ok
        THEN [t EXCEPT !.stage = "stored", !.hasRow = TRUE, !.column = lit.value]
        ELSE [t EXCEPT !.stage = "stored", !.storeErr = TRUE]

\* sqlite3 CLI variant, GetLatestEngagement: the first output line split on
\* "|" must have exactly six fields; the last one, trimmed, is the payload
CLI_GetLatestEngagement(t) ==
    LET line == IF t.hasRow THEN JoinFields(Append(RowPrefix, t.column)) ELSE <<>>
        fields == SplitFields(TrimSpace(line))
    IN  IF Len(fields) # 6
        THEN [t EXCEPT !.stage = "read", !.readErr = TRUE]
        ELSE [t EXCEPT !.stage = "read", !.got = TrimSpace(fields[6])]

\* SQLite Cloud variant, StoreEngagement: the payload is a bound parameter
Cloud_StoreEngagement(t) ==
    [t EXCEPT !.stage = "stored", !.hasRow = TRUE, !.column = t.payload]

\* SQLite Cloud variant, GetLatestEngagement: GetStringValue of the column
Cloud_GetLatestEngagement(t) ==
    IF t.hasRow THEN [t EXCEPT !.stage = "read", !.got = t.column]
    ELSE [t EXCEPT !.stage = "read"]

\* the characters a title or description may put into the encoded text
TextAlphabet == {"a", "|", "'"}
Texts == UNION {[1..k -> TextAlphabet] : k \in 0..MaxTextLen}
\* json.Marshal of a result whose one string field holds the text
EncodedResult(text) == <<"{", "\"">> \o text \o <<"\"", "}">>
Variants == {"cli", "cloud"}

StoreText ==
    /\ trip.stage = "start"
    /\ trip' = IF trip.variant = "cli" THEN CLI_StoreEngagement(trip)
               ELSE Cloud_StoreEngagement(trip)
    /\ UNCHANGED <<now, store, req, lastWrite, call>>

ReadText ==
    /\ trip.stage = "stored"
    /\ trip' = IF trip.variant = "cli" THEN CLI_GetLatestEngagement(trip)
               ELSE Cloud_GetLatestEngagement(trip)
    /\ UNCHANGED <<now, store, req, lastWrite, call>>

\* the key has no row or a row holding an earlier text
InitStore ==
    /\ now = FirstInstant
    /\ store = {}
    /\ req = [r \in Requests |-> IdleRequest]
    /\ lastWrite = [k \in Keys |-> 0]
    /\ call = NoCall
    /\ \E v \in Variants : \E text \in Texts : \E had \in BOOLEAN :
        trip = [NoTrip EXCEPT !.variant = v, !.payload = EncodedResult(text),
                              !.hasRow = had,
                              !.column = IF had THEN EncodedResult(<<>>) ELSE <<>>,
                              !.stage = "start"]

NextStore == StoreText \/ ReadText

SpecStore == InitStore /\ [][NextStore]_vars

\* ------------------------------------------- engines over converted videos
\* The bodies of the four engines and Video.EngagementScore() applied to a
\* list of converted videos. call holds the list in the provider's order
\* (input), the path taken, the index and value of one score taken (scored,
\* score), the position (stage), the list the engine aggregated over (videos),
\* the analytics engine's error and result and the trends engine's result.
\* the counts a video may carry
RankProfiles ==
    <<[Views |-> 3, Likes |-> 0, Comments |-> 0],
      [Views |-> 1, Likes |-> 0, Comments |-> 1],
      [Views |-> 0, Likes |-> 1, Comments |-> 0],
      [Views |-> 1, Likes |-> 1, Comments |-> 0]>>

\* the upload instant of the i-th listed item: distinct instants in no order
RankDate(i) == 0 - (((3 * i) % WeekDays) * InstantsPerDay + (i % InstantsPerDay))

RankVideo(i, p) ==
    [ID |-> i, Views |-> p.Views, Likes |-> p.Likes, Comments |-> p.Comments,
     UploadDate |-> RankDate(i)]

\* every short list of profiles, and the longer lists that cycle through them
FreeLists == UNION {[1..k -> DOMAIN RankProfiles] : k \in 0..MaxFreeLen}
CyclicLists ==
    {[i \in 1..k |-> ((i + sh) % Len(RankProfiles)) + 1] :
        k \in (MaxFreeLen + 1)..MaxRankLen, sh \in 0..(Len(RankProfiles) - 1)}
RankInputs ==
    {[i \in DOMAIN l |-> RankVideo(i, RankProfiles[l[i]])] :
        l \in FreeLists \cup CyclicLists}

NoRank ==
    [path |-> "", input |-> <<>>, scored |-> 0, score |-> 0, stage |-> "",
     videos |-> <<>>, err |-> FALSE, analytics |-> NoResult, trends |-> NoResult]

\* Video.EngagementScore() of the i-th video
Video_EngagementScore(i) ==
    /\ call.stage = ""
    /\ call.scored = 0
    /\ i \in DOMAIN call.input
    /\ call' = [call EXCEPT !.scored = i, !.score = EngagementScore(call.input[i])]
    /\ UNCHANGED <<now, store, req, lastWrite, trip>>

\* YouTubeClient.GetChannelAnalytics from the filter and the sort of
\* GetChannelVideos on
Engine_ClientAnalytics ==
    /\ call.stage = ""
    /\ call.path = "client"
    /\ \E videos \in Client_FilterSort(call.input, RecencyFilter(Len(call.input))) :
        \E res \in Client_AnalyticsOf("UC1", videos) :
            call' = [call EXCEPT !.stage = "analytics", !.videos = videos,
                                 !.err = res.err, !.analytics = res.out]
    /\ UNCHANGED <<now, store, req, lastWrite, trip>>

\* YouTubeClient.GetChannelTrends over the same videos
Engine_ClientTrends ==
    /\ call.stage = "analytics"
    /\ call.path = "client"
    /\ \E res \in Client_TrendsOf("UC1", call.videos, now) :
        call' = [call EXCEPT !.stage = "trends", !.trends = res.out]
    /\ UNCHANGED <<now, store, req, lastWrite, trip>>

\* YouTubeAPI.getChannelAnalytics from the conversion loop on
Engine_APIAnalytics ==
    /\ call.stage = ""
    /\ call.path = "api"
    /\ \E res \in API_AnalyticsOf("UC1", call.input, now) :
        call' = [call EXCEPT !.stage = "analytics", !.videos = call.input,
                             !.analytics = res]
    /\ UNCHANGED <<now, store, req, lastWrite, trip>>

\* YouTubeAPI.getChannelTrends over the same videos
Engine_APITrends ==
    /\ call.stage = "analytics"
    /\ call.path = "api"
    /\ \E res \in API_TrendsOf("UC1", call.videos, now) :
        call' = [call EXCEPT !.stage = "trends", !.trends = res]
    /\ UNCHANGED <<now, store, req, lastWrite, trip>>

InitRank ==
    /\ now = FirstInstant
    /\ store = {}
    /\ req = [r \in Requests |-> IdleRequest]
    /\ lastWrite = [k \in Keys |-> 0]
    /\ \E l \in RankInputs, p \in {"client", "api"} :
        call = [NoRank EXCEPT !.input = l, !.path = p]
    /\ trip = NoTrip

NextRank ==
    \/ \E i \in 1..MaxRankLen : Video_EngagementScore(i)
    \/ Engine_ClientAnalytics
    \/ Engine_ClientTrends
    \/ Engine_APIAnalytics
    \/ Engine_APITrends

SpecRank == InitRank /\ [][NextRank]_vars

\* ------------------------------------------------------- video listing
\* The two GET /channel/:id/videos handlers over what the provider holds.
\* call holds the path, the provider's records as it encodes them (items),
\* the parsed filter, the position (stage), and the handler's error, list
\* and status. The provider answers every request here; its failures are
\* modelled with the fetch below.
\* one count of a provider record: a decimal string, a JSON number, or absent
RawField(enc, n) == [json |-> enc, val |-> IF enc = "absent" THEN 0 ELSE n]

\* the upload instant of the i-th listed record: distinct, not newest first
RawDate(i) == RankDate(i + 1)

RawLists == UNION {[1..k -> InputCounts] : k \in 0..MaxRawLen}

RawItems(l, enc) ==
    [i \in DOMAIN l |->
        [Id |-> i,
         ViewCount |-> RawField(enc, l[i].views),
         LikeCount |-> RawField(enc, l[i].likes),
         CommentCount |-> RawField(enc, (l[i].views + l[i].likes) % 2),
         PublishedAt |-> RawDate(i)]]

\* json.Decode into models.VideoListResponse: the counts are string fields,
\* a JSON number in their place fails the decoding of the whole response
DecodeOk(items) ==
    \A i \in DOMAIN items :
        /\ items[i].ViewCount.json # "number"
        /\ items[i].LikeCount.json # "number"
        /\ items[i].CommentCount.json # "number"

\* a decoded string field; an absent field leaves the empty string (val -1)
DecodeString(f) == IF f.json = "absent" THEN Str(-1) ELSE Str(f.val)

DecodeVideoList(items) ==
    [i \in DOMAIN items |->
        [Id |-> items[i].Id,
         ViewCount |-> DecodeString(items[i].ViewCount),
         LikeCount |-> DecodeString(items[i].LikeCount),
         CommentCount |-> DecodeString(items[i].CommentCount),
         PublishedAt |-> TimeVal(items[i].PublishedAt)]]

\* the same records as the SDK hands them over: uint64 counts (0 for an
\* absent field), RFC3339 string dates
SDKVideoList(items) ==
    [i \in DOMAIN items |->
        [Id |-> items[i].Id,
         ViewCount |-> U64(items[i].ViewCount.val),
         LikeCount |-> U64(items[i].LikeCount.val),
         CommentCount |-> U64(items[i].CommentCount.val),
         PublishedAt |-> Str(items[i].PublishedAt)]]

\* the filters the query parsing of the handlers builds: a sort option, a
\* positive maxVideos or the default, the minimum counts
Filters ==
    [SortBy : {"views", "likes", "recency"},
     MaxVideos : (1..MaxRawLen) \cup {DefaultMaxVideos},
     MinViews : {0, MaxCount},
     MinLikes : {0, 1}]

\* the body of YouTubeAPI.GetChannelVideos over the videos getAllVideos
\* returned: convert, filter, sort, then cut to MaxVideos
API_VideosOf(allVideos, filter) ==
    LET converted == NormalizeAll(allVideos)
        kept == SelectSeq(converted,
                    LAMBDA v : ~(v.Views < filter.MinViews \/ v.Likes < filter.MinLikes))
    IN  {Take(s, filter.MaxVideos) : s \in SortSlice(kept, SortKeys(filter.SortBy, kept))}

NoList ==
    [path |-> "", items |-> <<>>, filter |-> RecencyFilter(0), stage |-> "",
     err |-> FALSE, videos |-> <<>>, status |-> 0]

\* Server.getChannelVideos with YouTubeClient.GetChannelVideos: 400 with the
\* client's error, else 200 with the list
Server_getChannelVideos ==
    /\ call.stage = ""
    /\ call.path = "client"
    /\ IF DecodeOk(call.items)
       THEN \E videos \in Client_GetChannelVideos(DecodeVideoList(call.items), call.filter) :
                call' = [call EXCEPT !.stage = "done", !.videos = videos, !.status = 200]
       ELSE call' = [call EXCEPT !.stage = "done", !.err = TRUE, !.status = 400]
    /\ UNCHANGED <<now, store, req, lastWrite, trip>>

\* YouTubeAPI.GetChannelVideos: 200 with the list (the empty list included)
API_GetChannelVideos ==
    /\ call.stage = ""
    /\ call.path = "api"
    /\ \E videos \in (IF Len(call.items) = 0 THEN {<<>>}
                      ELSE API_VideosOf(SDKVideoList(call.items), call.filter)) :
        call' = [call EXCEPT !.stage = "done", !.videos = videos, !.status = 200]
    /\ UNCHANGED <<now, store, req, lastWrite, trip>>

\* the provider encodes the counts of a channel's records in one way; the
\* SDK accepts the string encoding and absent fields
InitVideos ==
    /\ now = FirstInstant
    /\ store = {}
    /\ req = [r \in Requests |-> IdleRequest]
    /\ lastWrite = [k \in Keys |-> 0]
    /\ \E l \in RawLists, enc \in {"string", "number", "absent"},
          p \in {"client", "api"}, f \in Filters :
        /\ p = "api" => enc # "number"
        /\ call = [NoList EXCEPT !.path = p, !.items = RawItems(l, enc), !.filter = f]
    /\ trip = NoTrip

NextVideos ==
    \/ Server_getChannelVideos
    \/ API_GetChannelVideos

SpecVideos == InitVideos /\ [][NextVideos]_vars

\* ------------------------------------------------------------- the fetch
\* The requests one fetch of a channel's videos sends to the provider, one
\* action per request. call holds the path, the number of uploads of the
\* channel, filter.MaxVideos (REST path), the position (pc, page, batch),
\* the ids and the videos gathered so far, the error returned, and what
\* happened on the wire: the requests sent, and whether and at which request
\* one of them was not answered with a success (failed, failedAt).
\* An answer of the provider: success; no answer (transport error); a
\* non-success status with the provider's JSON error object, or with a body
\* that is not JSON.
Outcomes == {"ok", "transport", "status_json", "status_other"}

\* c.client.Get returns an error only when no answer came, and the decoding
\* fails only on a body that is not JSON: the status code is not read
ClientRequestFails(o) == o \in {"transport", "status_other"}
\* call.Do() of the SDK returns an error on every non-success answer
SDKRequestFails(o) == o # "ok"

\* the uploads playlist as the provider serves it: a chain of pages of up to
\* PageSize items each, given by the number of items of each page; every
\* page but the last carries a next page token
PageChains ==
    {c \in UNION {[1..k -> 0..PageSize] : k \in 1..MaxFetch} :
        SumInts(c) <= MaxFetch}

\* the ids on page k of a chain, and whether a page follows
PageItems(chain, k) ==
    [i \in 1..chain[k] |-> SumInts(SubSeq(chain, 1, k - 1)) + i]
HasNextPage(chain, k) == k < Len(chain)

NoFetch ==
    [path |-> "", uploads |-> <<0>>, maxVideos |-> 0, pc |-> "channel", page |-> 1,
     batch |-> 1, ids |-> <<>>, videos |-> <<>>, err |-> FALSE,
     requests |-> 0, failed |-> FALSE, failedAt |-> 0, detail |-> <<>>,
     lastPage |-> 0]

\* the wire after one more request answered with o
Sent(o) ==
    [call EXCEPT !.requests = call.requests + 1,
                 !.failed = call.failed \/ o # "ok",
                 !.failedAt = IF ~call.failed /\ o # "ok" THEN call.requests + 1
                              ELSE call.failedAt]

\* return nil, err
Failed(c) == [c EXCEPT !.pc = "done", !.err = TRUE, !.videos = <<>>]

\* YouTubeClient.GetChannelVideos, the channel lookup: an error object
\* decodes to no items, which reads as "channel not found"
Client_FetchChannel(o) ==
    /\ call.path = "client"
    /\ call.pc = "channel"
    /\ call' = IF o = "ok" THEN [Sent(o) EXCEPT !.pc = "page"] ELSE Failed(Sent(o))
    /\ UNCHANGED <<now, store, req, lastWrite, trip>>

\* one playlist page: an error object decodes to no items and no next page
\* token, which ends the paging. lastPage is the page the request asked for
Client_FetchPage(o) ==
    /\ call.path = "client"
    /\ call.pc = "page"
    /\ LET items == IF o = "ok" THEN PageItems(call.uploads, call.page) ELSE <<>>
           more == o = "ok" /\ HasNextPage(call.uploads, call.page)
           allVideoIDs == call.ids \o items
           cut == Take(allVideoIDs, call.maxVideos)
           sent == [Sent(o) EXCEPT !.lastPage = call.page]
       IN  call' =
             IF ClientRequestFails(o) THEN Failed(sent)
             ELSE IF Len(allVideoIDs) >= call.maxVideos \/ ~more
             THEN [sent EXCEPT !.ids = cut,
                               !.pc = IF Len(cut) = 0 THEN "done" ELSE "batch"]
             ELSE [sent EXCEPT !.ids = allVideoIDs, !.page = call.page + 1]
    /\ UNCHANGED <<now, store, req, lastWrite, trip>>

\* variant: one request for all the ids
ClientBatch_All(allVideoIDs, b) == allVideoIDs

\* batch := allVideoIDs[i:end] of the b-th round of the detail loop
ClientBatch(allVideoIDs, b) ==
    SubSeq(allVideoIDs, (b - 1) * BatchSize + 1,
           Min(b * BatchSize, Len(allVideoIDs)))

\* one batch of video details: an error object decodes to no items. detail
\* is the list of ids the request carried
Client_FetchBatch(o) ==
    /\ call.path = "client"
    /\ call.pc = "batch"
    /\ LET end == Min(call.batch * BatchSize, Len(call.ids))
           batch == ClientBatch(call.ids, call.batch)
           items == IF o = "ok" THEN batch ELSE <<>>
           sent == [Sent(o) EXCEPT !.detail = batch]
       IN  call' =
             IF ClientRequestFails(o) THEN Failed(sent)
             ELSE [sent EXCEPT !.videos = call.videos \o items,
                                  !.batch = call.batch + 1,
                                  !.pc = IF end >= Len(call.ids) THEN "done"
                                         ELSE "batch"]
    /\ UNCHANGED <<now, store, req, lastWrite, trip>>

\* YouTubeAPI.getAllVideos, getChannelInfo
API_FetchChannel(o) ==
    /\ call.path = "api"
    /\ call.pc = "channel"
    /\ call' = IF SDKRequestFails(o) THEN Failed(Sent(o))
               ELSE [Sent(o) EXCEPT !.pc = "page"]
    /\ UNCHANGED <<now, store, req, lastWrite, trip>>

\* PlaylistItems.List(...).Do(): an empty page ends the loop
API_FetchPage(o) ==
    /\ call.path = "api"
    /\ call.pc = "page"
    /\ LET items == PageItems(call.uploads, call.page)
           sent == [Sent(o) EXCEPT !.lastPage = call.page]
       IN  call' =
             IF SDKRequestFails(o) THEN Failed(sent)
             ELSE IF Len(items) = 0 THEN [sent EXCEPT !.pc = "done"]
             ELSE [sent EXCEPT !.ids = items, !.pc = "details"]
    /\ UNCHANGED <<now, store, req, lastWrite, trip>>

\* Videos.List(...).Id(videoIDs...).Do() for the page, then the page token
API_FetchDetails(o) ==
    /\ call.path = "api"
    /\ call.pc = "details"
    /\ LET sent == [Sent(o) EXCEPT !.detail = call.ids]
       IN  call' =
         IF SDKRequestFails(o) THEN Failed(sent)
         ELSE [sent EXCEPT !.videos = call.videos \o call.ids,
                           !.page = call.page + 1,
                           !.pc = IF HasNextPage(call.uploads, call.page)
                                  THEN "page" ELSE "done"]
    /\ UNCHANGED <<now, store, req, lastWrite, trip>>

InitFetch ==
    /\ now = FirstInstant
    /\ store = {}
    /\ req = [r \in Requests |-> IdleRequest]
    /\ lastWrite = [k \in Keys |-> 0]
    /\ \E p \in {"client", "api"}, n \in PageChains,
          m \in (1..MaxFetch) \cup {DefaultMaxVideos} :
        /\ p = "api" => m = DefaultMaxVideos
        /\ call = [NoFetch EXCEPT !.path = p, !.uploads = n, !.maxVideos = m]
    /\ trip = NoTrip

NextFetch ==
    \/ \E o \in Outcomes : Client_FetchChannel(o)
    \/ \E o \in Outcomes : Client_FetchPage(o)
    \/ \E o \in Outcomes : Client_FetchBatch(o)
    \/ \E o \in Outcomes : API_FetchChannel(o)
    \/ \E o \in Outcomes : API_FetchPage(o)
    \/ \E o \in Outcomes : API_FetchDetails(o)

SpecFetch == InitFetch /\ [][NextFetch]_vars

\* ------------------------------------------------- cache gate, with failures
\* The same handlers when a call to the database or to the provider may
\* return an error. call[r] is the set of calls of request r that returned
\* one: "cache_read" (GetLatestEngagement), "fetch" (getChannelAnalytics /
\* getChannelTrends), "store" (StoreEngagement).
FaultRequests == 1..Min(MaxRequests, 2)
ErrorBody == [type |-> "error"]

\* GetLatestEngagement returns an error: the handler logs it and goes on to
\* fetch
CacheReadFails(r, ch, kind) ==
    /\ req[r].pc = "idle"
    /\ IF r = 1 THEN TRUE ELSE req[r - 1].pc # "idle"
    /\ req' = [req EXCEPT ![r] =
            [@ EXCEPT !.channelID = ch, !.kind = kind, !.pc = "fetch"]]
    /\ call' = [call EXCEPT ![r] = @ \cup {"cache_read"}]
    /\ UNCHANGED <<now, store, lastWrite, trip>>

\* variant: the handler answers a failed fetch with 200 and an empty result
FetchErrorResponse_Degraded(q) ==
    [q EXCEPT !.pc = "done", !.fetches = @ + 1, !.status = 200,
              !.body = [type |-> q.kind]]

\* c.JSON(http.StatusInternalServerError, gin.H{"error": err.Error()}); return
FetchErrorResponse(q) ==
    [q EXCEPT !.pc = "done", !.fetches = @ + 1, !.status = 500, !.body = ErrorBody]

\* h.getChannelAnalytics / h.getChannelTrends returns an error (a request of
\* getAllVideos failed)
FetchFails(r) ==
    /\ req[r].pc = "fetch"
    /\ req' = [req EXCEPT ![r] = FetchErrorResponse(@)]
    /\ call' = [call EXCEPT ![r] = @ \cup {"fetch"}]
    /\ UNCHANGED <<now, store, lastWrite, trip>>

\* the fetch and the computation succeed and StoreEngagement's SELECT
\* COUNT(*) returns an error: StoreEngagement returns it, the handler logs it
\* and answers 200 with the computed result
CountFails(r) ==
    /\ req[r].pc = "fetch"
    /\ \E uploads \in ChannelUploads :
        \E res \in Compute(req[r].kind, req[r].channelID, uploads, now) :
            /\ MarshalOk(res)
            /\ req' = [req EXCEPT ![r] =
                    [@ EXCEPT !.pc = "done", !.fetched = Len(uploads),
                              !.result = res, !.jsonData = Marshal(res),
                              !.fetches = @ + 1, !.stores = @ + 1,
                              !.storeErr = TRUE, !.status = 200, !.body = res]]
    /\ call' = [call EXCEPT ![r] = @ \cup {"store"}]
    /\ UNCHANGED <<now, store, lastWrite, trip>>

\* StoreEngagement's UPDATE / INSERT returns an error: no row changes, the
\* handler logs it and answers 200 with the computed result
ExecFails(r) ==
    /\ req[r].pc = "store_exec"
    /\ req' = [req EXCEPT ![r] =
            [@ EXCEPT !.pc = "done", !.storeErr = TRUE, !.status = 200,
                      !.body = req[r].result]]
    /\ call' = [call EXCEPT ![r] = @ \cup {"store"}]
    /\ UNCHANGED <<now, store, lastWrite, trip>>

InitFaults ==
    /\ now = FirstInstant
    /\ \E f \in LegacyTables :
        store = {LegacyRow(k[1], k[2], f[k], KeyID(k)) : k \in {x \in Keys : f[x] # "none"}}
    /\ req = [r \in Requests |-> IdleRequest]
    /\ lastWrite = [k \in Keys |-> 0]
    /\ call = [r \in Requests |-> {}]
    /\ trip = NoTrip

NextFaults ==
    \/ \E r \in FaultRequests, ch \in Channels, kind \in Kinds : CacheCheck(r, ch, kind)
    \/ \E r \in FaultRequests, ch \in Channels, kind \in Kinds : CacheReadFails(r, ch, kind)
    \/ \E r \in FaultRequests : Recompute(r)
    \/ \E r \in FaultRequests : FetchFails(r)
    \/ \E r \in FaultRequests : CountFails(r)
    \/ \E r \in FaultRequests : StoreEngagementExec(r)
    \/ \E r \in FaultRequests : ExecFails(r)
    \/ Tick

SpecFaults == InitFaults /\ [][NextFaults]_vars

\* ------------------------------------------------ channel URL resolution
\* YouTubeClient.ExtractChannelIDFromURL. A path is a sequence of tokens, the
\* separator "/" being one of them, so that strings.HasPrefix and
\* strings.TrimPrefix act on it as they act on the string.
MaxPathLen == 4

PathTokens == {"/", "channel", "c", "user", "@", "x"}
Hosts == {"www.youtube.com", "youtu.be", "example.org"}

HasPrefix(s, p) == Len(s) >= Len(p) /\ SubSeq(s, 1, Len(p)) = p
TrimPrefix(s, p) == IF HasPrefix(s, p) THEN SubSeq(s, Len(p) + 1, Len(s)) ELSE s

\* strings.Contains(parsedURL.Host, ...)
HostContains(h, what) ==
    \/ what = "youtube.com" /\ h = "www.youtube.com"
    \/ what = "youtu.be" /\ h = "youtu.be"

\* the paths url.Parse yields for a URL with a host: empty or rooted
Paths ==
    {<<>>} \cup
    UNION {{<<"/">> \o t : t \in [1..n -> PathTokens]} : n \in 0..(MaxPathLen - 1)}

\* parsed = FALSE is a string url.Parse rejects
URLs ==
    {[parsed |-> FALSE, host |-> "", path |-> <<>>]} \cup
    [parsed : {TRUE}, host : Hosts, path : Paths]

ProviderIDs == {<<"UC1">>, <<"UC2">>}
\* channel titles: the handle "x" in either case, or another title
Titles == {<<"x">>, <<"X">>, <<"other">>}
Lower(t) == IF t = "X" THEN "x" ELSE t
EqualFold(a, b) ==
    /\ Len(a) = Len(b)
    /\ \A i \in 1..Len(a) : Lower(a[i]) = Lower(b[i])

NoResolve ==
    [url |-> [parsed |-> FALSE, host |-> "", path |-> <<>>], pc |-> "start",
     name |-> <<>>, requests |-> <<>>, id |-> <<>>, err |-> "",
     warned |-> FALSE]

\* return "", err
ResolveError(c, e) == [c EXCEPT !.pc = "done", !.id = <<>>, !.err = e]
\* return id, nil
ResolveTo(c, id) == [c EXCEPT !.pc = "done", !.id = id, !.err = ""]
\* one more GET, of the given kind, answered with outcome o and n items
Asked(c, kind, o, n) ==
    [c EXCEPT !.requests = Append(@, [kind |-> kind, outcome |-> o, items |-> n])]

\* where the switch of ExtractChannelIDFromURL sends a parsed URL
Dispatch_ShortLinkFirst(u) ==
    IF HostContains(u.host, "youtube.com") \/ HostContains(u.host, "youtu.be")
    THEN IF HasPrefix(u.path, <<"/", "channel", "/">>) THEN "channel"
         ELSE IF HasPrefix(u.path, <<"/", "c", "/">>)
                 \/ HasPrefix(u.path, <<"/", "user", "/">>) THEN "custom"
         ELSE IF HasPrefix(u.path, <<"/", "@">>) THEN "handle"
         ELSE "unsupported"
    ELSE "unsupported"

Dispatch(u) ==
    IF HostContains(u.host, "youtube.com")
    THEN IF HasPrefix(u.path, <<"/", "channel", "/">>) THEN "channel"
         ELSE IF HasPrefix(u.path, <<"/", "c", "/">>)
                 \/ HasPrefix(u.path, <<"/", "user", "/">>) THEN "custom"
         ELSE IF HasPrefix(u.path, <<"/", "@">>) THEN "handle"
         ELSE "unsupported"
    ELSE IF HostContains(u.host, "youtu.be") THEN "shortlink"
    ELSE "unsupported"

Client_ExtractChannelIDFromURL ==
    /\ call.pc = "start"
    /\ LET u == call.url
           p == u.path
       IN  call' =
             IF ~u.parsed THEN ResolveError(call, "invalid URL")
             ELSE IF Dispatch(u) = "channel"
                  THEN ResolveTo(call, TrimPrefix(p, <<"/", "channel", "/">>))
             ELSE IF Dispatch(u) = "custom"
                  THEN [call EXCEPT !.pc = "custom",
                           !.name = TrimPrefix(TrimPrefix(p, <<"/", "c", "/">>),
                                               <<"/", "user", "/">>)]
             ELSE IF Dispatch(u) = "handle"
                  THEN [call EXCEPT !.pc = "handle",
                                    !.name = TrimPrefix(p, <<"/", "@">>)]
             ELSE IF Dispatch(u) = "shortlink"
                  THEN ResolveError(call, "youtu.be URLs are typically video URLs")
             ELSE ResolveError(call, "unsupported YouTube URL format")
    /\ UNCHANGED <<now, store, req, lastWrite, trip>>

\* getChannelIDFromCustomURL: one channels?forUsername request
Client_getChannelIDFromCustomURL(o, ids) ==
    /\ call.pc = "custom"
    /\ LET c == Asked(call, "forUsername", o, Len(ids))
       IN  call' = IF o # "ok" THEN ResolveError(c, "request failed")
                   ELSE IF Len(ids) = 0 THEN ResolveError(c, "no channel found for URL")
                   ELSE ResolveTo(c, ids[1])
    /\ UNCHANGED <<now, store, req, lastWrite, trip>>

\* getChannelIDFromHandle, the channels?forHandle request
Client_HandleLookup(o, ids) ==
    /\ call.pc = "handle"
    /\ LET c == Asked(call, "forHandle", o, Len(ids))
       IN  call' = IF o # "ok" THEN ResolveError(c, "request failed")
                   ELSE IF Len(ids) > 0 THEN ResolveTo(c, ids[1])
                   ELSE [c EXCEPT !.pc = "search"]
    /\ UNCHANGED <<now, store, req, lastWrite, trip>>

\* getChannelIDFromHandle, the search request
Client_HandleSearch(o, ids) ==
    /\ call.pc = "search"
    /\ LET c == Asked(call, "search", o, Len(ids))
       IN  call' = IF o # "ok" THEN ResolveError(c, "request failed")
                   ELSE IF Len(ids) = 0 THEN ResolveError(c, "no channel found for handle")
                   ELSE [c EXCEPT !.pc = "verify", !.id = ids[1]]
    /\ UNCHANGED <<now, store, req, lastWrite, trip>>

\* getChannelIDFromHandle, GetChannelByID of the first search result and the
\* comparison of its title with the handle
Client_HandleVerify(o, found, title) ==
    /\ call.pc = "verify"
    /\ LET c == Asked(call, "id", o, IF found THEN 1 ELSE 0)
       IN  call' = IF o # "ok" \/ ~found
                   THEN ResolveError(c, "failed to verify channel")
                   ELSE [ResolveTo(c, call.id) EXCEPT
                            !.warned = ~EqualFold(title, call.name)]
    /\ UNCHANGED <<now, store, req, lastWrite, trip>>

\* the items of an answer: none, one or two channel ids
Answers == {<<>>} \cup {<<i>> : i \in ProviderIDs}
               \cup {<<i, j>> : i \in ProviderIDs, j \in ProviderIDs}

InitResolve ==
    /\ now = FirstInstant
    /\ store = {}
    /\ req = [r \in Requests |-> IdleRequest]
    /\ lastWrite = [k \in Keys |-> 0]
    /\ \E u \in URLs : call = [NoResolve EXCEPT !.url = u]
    /\ trip = NoTrip

NextResolve ==
    \/ Client_ExtractChannelIDFromURL
    \/ \E o \in Outcomes, ids \in Answers : Client_getChannelIDFromCustomURL(o, ids)
    \/ \E o \in Outcomes, ids \in Answers : Client_HandleLookup(o, ids)
    \/ \E o \in Outcomes, ids \in Answers : Client_HandleSearch(o, ids)
    \/ \E o \in Outcomes, found \in BOOLEAN, title \in Titles :
           Client_HandleVerify(o, found, title)

SpecResolve == InitResolve /\ [][NextResolve]_vars

\* ------------------------------------------------- video-list query parsing
\* The filter the two video-list handlers build from the query string. A
\* parameter value is a sequence of characters; c.Query gives the empty
\* string for a parameter that is absent.
MaxQueryLen == 2

QueryChars == {"-", "0", "1", "a"}
Digits == {"0", "1"}
DigitValue(ch) == IF ch = "1" THEN 1 ELSE 0

QueryStrings == UNION {[1..n -> QueryChars] : n \in 0..MaxQueryLen}
\* the values tried for minViews and minLikes
MinQueries == {<<>>, <<"0">>, <<"1">>, <<"a">>, <<"-", "1">>, <<"1", "a">>}
SortQueries == {"", "views", "likes", "recency", "Views", "rating"}

RECURSIVE DecimalValue(_)
DecimalValue(s) ==
    IF s = <<>> THEN 0
    ELSE 10 * DecimalValue(SubSeq(s, 1, Len(s) - 1)) + DigitValue(s[Len(s)])

\* strconv.Atoi / strconv.ParseInt(s, 10, 64): an optional sign and at least
\* one digit, nothing else (the values here are far from the 64-bit range)
ParseOk(s) ==
    LET body == IF s # <<>> /\ s[1] = "-" THEN Tail(s) ELSE s
    IN  /\ body # <<>>
        /\ \A i \in 1..Len(body) : body[i] \in Digits
ParseInt(s) ==
    IF s[1] = "-" THEN 0 - DecimalValue(Tail(s)) ELSE DecimalValue(s)

ParseSortBy(sortBy) ==
    IF sortBy = "views" THEN "views"
    ELSE IF sortBy = "likes" THEN "likes"
    ELSE "recency"

ParseMaxVideos_AnyNumber(s) ==
    IF s # <<>> /\ ParseOk(s) THEN ParseInt(s) ELSE DefaultMaxVideos

ParseMaxVideos(s) ==
    IF s # <<>> /\ ParseOk(s) /\ ParseInt(s) > 0 THEN ParseInt(s)
    ELSE DefaultMaxVideos

ParseMin(s) == IF s # <<>> /\ ParseOk(s) THEN ParseInt(s) ELSE 0

\* the filter of Server.getChannelVideos and of YouTubeAPI.GetChannelVideos
ParseFilter(q) ==
    [SortBy |-> ParseSortBy(q.sortBy),
     MaxVideos |-> ParseMaxVideos(q.maxVideos),
     MinViews |-> ParseMin(q.minViews),
     MinLikes |-> ParseMin(q.minLikes)]

Queries ==
    [sortBy : SortQueries, maxVideos : QueryStrings,
     minViews : MinQueries, minLikes : MinQueries]

NoParse ==
    [path |-> "", query |-> [sortBy |-> "", maxVideos |-> <<>>,
                             minViews |-> <<>>, minLikes |-> <<>>],
     pc |-> "start", filter |-> [SortBy |-> "", MaxVideos |-> 0,
                                 MinViews |-> 0, MinLikes |-> 0],
     fetchOk |-> TRUE, status |-> 0]

\* Server.getChannelVideos: parse, then GetChannelVideos, then answer
Server_ParseFilter ==
    /\ call.path = "client"
    /\ call.pc = "start"
    /\ call' = [call EXCEPT !.pc = "fetch", !.filter = ParseFilter(call.query)]
    /\ UNCHANGED <<now, store, req, lastWrite, trip>>

Server_Answer(ok) ==
    /\ call.path = "client"
    /\ call.pc = "fetch"
    /\ call' = [call EXCEPT !.pc = "done", !.fetchOk = ok,
                            !.status = IF ok THEN 200 ELSE 400]
    /\ UNCHANGED <<now, store, req, lastWrite, trip>>

\* YouTubeAPI.GetChannelVideos: the channel is looked up before the parsing
API_LookupChannel(ok, found) ==
    /\ call.path = "api"
    /\ call.pc = "start"
    /\ call' = IF ok /\ found THEN [call EXCEPT !.pc = "parse"]
               ELSE [call EXCEPT !.pc = "done", !.fetchOk = FALSE,
                                 !.status = IF ok THEN 404 ELSE 500]
    /\ UNCHANGED <<now, store, req, lastWrite, trip>>

API_ParseFilter ==
    /\ call.path = "api"
    /\ call.pc = "parse"
    /\ call' = [call EXCEPT !.pc = "fetch", !.filter = ParseFilter(call.query)]
    /\ UNCHANGED <<now, store, req, lastWrite, trip>>

API_Answer(ok) ==
    /\ call.path = "api"
    /\ call.pc = "fetch"
    /\ call' = [call EXCEPT !.pc = "done", !.fetchOk = ok,
                            !.status = IF ok THEN 200 ELSE 500]
    /\ UNCHANGED <<now, store, req, lastWrite, trip>>

InitParse ==
    /\ now = FirstInstant
    /\ store = {}
    /\ req = [r \in Requests |-> IdleRequest]
    /\ lastWrite = [k \in Keys |-> 0]
    /\ \E p \in {"client", "api"}, q \in Queries :
           call = [NoParse EXCEPT !.path = p, !.query = q]
    /\ trip = NoTrip

NextParse ==
    \/ Server_ParseFilter
    \/ \E ok \in BOOLEAN : Server_Answer(ok)
    \/ \E ok \in BOOLEAN, found \in BOOLEAN : API_LookupChannel(ok, found)
    \/ API_ParseFilter
    \/ \E ok \in BOOLEAN : API_Answer(ok)

SpecParse == InitParse /\ [][NextParse]_vars

\* ------------------------------------------------------- engagement score
\* Video.EngagementScore in float64 arithmetic: every conversion, product and
\* sum is rounded to the nearest value of MantissaBits significant bits (ties
\* to even). The mantissa is scaled down from 53 bits so that counts within
\* MaxScoreCount reach the range where float64 rounds.
MaxScoreCount == 5
MantissaBits == 3

RECURSIVE Ulp(_)
Ulp(n) == IF n < 2 ^ MantissaBits THEN 1 ELSE 2 * Ulp(n \div 2)

RoundFloat(n) ==
    LET u == Ulp(n)
        lo == (n \div u) * u
        hi == lo + u
    IN  IF n - lo < hi - n THEN lo
        ELSE IF n - lo > hi - n THEN hi
        ELSE IF (lo \div u) % 2 = 0 THEN lo ELSE hi

\* variant: the interactions per view
Float64Score_PerView(v) ==
    IF v.Views = 0 THEN 0
    ELSE (2 * v.Likes + 3 * v.Comments) \div v.Views

Float64Score(v) ==
    IF v.Views = 0 THEN 0
    ELSE RoundFloat(RoundFloat(RoundFloat(1 * RoundFloat(v.Views))
                               + RoundFloat(2 * RoundFloat(v.Likes)))
                    + RoundFloat(3 * RoundFloat(v.Comments)))

ScoreCounts == [Views : 0..MaxScoreCount, Likes : 0..MaxScoreCount,
                Comments : 0..MaxScoreCount]
CountFields == {"Views", "Likes", "Comments"}

NoScore ==
    [low |-> [Views |-> 0, Likes |-> 0, Comments |-> 0],
     high |-> [Views |-> 0, Likes |-> 0, Comments |-> 0],
     field |-> "", scored |-> {}, lowScore |-> 0, highScore |-> 0]

\* EngagementScore() of the video with the lower count
Video_ScoreLow ==
    /\ "low" \notin call.scored
    /\ call' = [call EXCEPT !.scored = @ \cup {"low"},
                            !.lowScore = Float64Score(call.low)]
    /\ UNCHANGED <<now, store, req, lastWrite, trip>>

\* EngagementScore() of the video with the higher count
Video_ScoreHigh ==
    /\ "high" \notin call.scored
    /\ call' = [call EXCEPT !.scored = @ \cup {"high"},
                            !.highScore = Float64Score(call.high)]
    /\ UNCHANGED <<now, store, req, lastWrite, trip>>

\* two videos that differ in one count only
InitScore ==
    /\ now = FirstInstant
    /\ store = {}
    /\ req = [r \in Requests |-> IdleRequest]
    /\ lastWrite = [k \in Keys |-> 0]
    /\ \E v \in ScoreCounts, w \in ScoreCounts, f \in CountFields :
        /\ v[f] < w[f]
        /\ \A g \in CountFields \ {f} : v[g] = w[g]
        /\ call = [NoScore EXCEPT !.low = v, !.high = w, !.field = f]
    /\ trip = NoTrip

NextScore ==
    \/ Video_ScoreLow
    \/ Video_ScoreHigh

SpecScore == InitScore /\ [][NextScore]_vars

\* --------------------------------------------------- trends of long lists
\* The trends engines on lists longer than their rolling windows. The videos
\* have distinct upload instants, spread over several weeks, and distinct
\* engagement scores, so that the sorts have one outcome; the views follow
\* one of a few patterns.
MaxRollLen == 12

RollPatterns == 1..4
\* the i-th video was uploaded half a week before the one listed before it
RollDate(i) == 0 - i * ((WeekDays * InstantsPerDay) \div 2)
RollVideo(i, p) ==
    [ID |-> i, Views |-> ((p * i) % 5) + 1, Likes |-> 0, Comments |-> 2 * i,
     UploadDate |-> RollDate(i)]
RollInputs ==
    {[i \in 1..n |-> RollVideo(i, p)] : n \in 0..MaxRollLen, p \in RollPatterns}

NoRoll == [path |-> "", input |-> <<>>, pc |-> "start", trends |-> NoResult]

\* YouTubeClient.GetChannelTrends from the empty-list check on
Roll_ClientTrends ==
    /\ call.pc = "start"
    /\ call.path = "client"
    /\ \E res \in Client_TrendsOf("UC1", call.input, now) :
        call' = [call EXCEPT !.pc = "done", !.trends = res.out]
    /\ UNCHANGED <<now, store, req, lastWrite, trip>>

\* YouTubeAPI.getChannelTrends from the sort by date on
Roll_APITrends ==
    /\ call.pc = "start"
    /\ call.path = "api"
    /\ \E res \in API_TrendsOf("UC1", call.input, now) :
        call' = [call EXCEPT !.pc = "done", !.trends = res]
    /\ UNCHANGED <<now, store, req, lastWrite, trip>>

InitRoll ==
    /\ now = FirstInstant
    /\ store = {}
    /\ req = [r \in Requests |-> IdleRequest]
    /\ lastWrite = [k \in Keys |-> 0]
    /\ \E l \in RollInputs, p \in {"client", "api"} :
        call = [NoRoll EXCEPT !.input = l, !.path = p]
    /\ trip = NoTrip

NextRoll ==
    \/ Roll_ClientTrends
    \/ Roll_APITrends

SpecRoll == InitRoll /\ [][NextRoll]_vars

\* ------------------------------------------ StoreEngagement and the table
\* Calls of StoreEngagement, in either Database variant, on a table with rows
\* of several channels. A channel id is a sequence of characters, the words
\* of SQL counting as one character each. The sqlite3 CLI variant formats the
\* id and the type into the text of its statements, which the shell then
\* reads as SQL; the SQLite Cloud variant binds them as parameters. The
\* payload is one character here (its quoting is the subject of SpecStore).
MaxStores == 3

FrameChannels ==
    {<<"a">>, <<"b">>, <<"a", "'", "OR", "channel_id", "=", "'", "b">>}
FramePayloads == {"p1", "p2"}

Word(w) == [kind |-> "word", text |-> <<w>>]
Literal(t) == [kind |-> "lit", text |-> t]

\* the tokens of an SQL text: a quote opens a string literal, the next single
\* quote closes it, two quotes inside a literal stand for one; ok is false
\* when the text ends inside a literal
RECURSIVE Lex(_, _, _)
Lex(text, inLit, cur) ==
    IF text = <<>> THEN [ok |-> ~inLit, items |-> <<>>]
    ELSE IF Head(text) = "'"
    THEN IF ~inLit THEN Lex(Tail(text), TRUE, <<>>)
         ELSE IF Len(text) >= 2 /\ text[2] = "'"
         THEN Lex(Tail(Tail(text)), TRUE, Append(cur, "'"))
         ELSE LET rest == Lex(Tail(text), FALSE, <<>>)
              IN  [ok |-> rest.ok, items |-> <<Literal(cur)>> \o rest.items]
    ELSE IF inLit THEN Lex(Tail(text), TRUE, Append(cur, Head(text)))
    ELSE LET rest == Lex(Tail(text), FALSE, <<>>)
         IN  [ok |-> rest.ok, items |-> <<Word(Head(text))>> \o rest.items]

\* WHERE channel_id = '%s' AND engagement_type = '%s', formatted
WhereText(ch, kind) ==
    <<"channel_id", "=", "'">> \o ch \o
    <<"'", "AND", "engagement_type", "=", "'", kind, "'">>

\* VALUES ('%s', '%s', '%s'), formatted
ValuesText(ch, kind, json) ==
    <<"'">> \o ch \o <<"'", ",", "'", kind, "'", ",", "'", json, "'">>

\* a condition is comparisons  column = literal  joined by AND / OR
Comparisons(items) == (Len(items) + 1) \div 4
WhereParses(lexed) ==
    /\ lexed.ok
    /\ Len(lexed.items) % 4 = 3
    /\ \A j \in 1..Comparisons(lexed.items) :
        /\ lexed.items[4 * j - 3] \in {Word("channel_id"), Word("engagement_type")}
        /\ lexed.items[4 * j - 2] = Word("=")
        /\ lexed.items[4 * j - 1].kind = "lit"
        /\ j < Comparisons(lexed.items) =>
               lexed.items[4 * j] \in {Word("AND"), Word("OR")}

ComparisonHolds(items, j, row) ==
    IF items[4 * j - 3] = Word("channel_id")
    THEN row.channel_id = items[4 * j - 1].text
    ELSE <<row.engagement_type>> = items[4 * j - 1].text

\* AND binds tighter than OR: the condition holds when all the comparisons of
\* one run of ANDs hold
SameConjunct(items, j, k) ==
    \A c \in (IF j < k THEN j ELSE k)..((IF j < k THEN k ELSE j) - 1) :
        items[4 * c] = Word("AND")
WhereHolds(items, row) ==
    \E j \in 1..Comparisons(items) :
        \A k \in 1..Comparisons(items) :
            SameConjunct(items, j, k) => ComparisonHolds(items, k, row)

ValuesParse(lexed) ==
    /\ lexed.ok
    /\ Len(lexed.items) = 5
    /\ \A i \in {1, 3, 5} : lexed.items[i].kind = "lit"
    /\ \A i \in {2, 4} : lexed.items[i] = Word(",")

\* sqlite3 CLI variant of StoreEngagement on the table rows at instant t: the
\* table afterwards and whether an error is returned
CLI_StoreRows(rows, ch, kind, json, t) ==
    LET where == Lex(WhereText(ch, kind), FALSE, <<>>)
        values == Lex(ValuesText(ch, kind, json), FALSE, <<>>)
        hit == {row \in rows : WhereHolds(where.items, row)}
    IN  IF ~WhereParses(where) THEN [rows |-> rows, err |-> TRUE]
        ELSE IF Cardinality(hit) > 0
        THEN [rows |-> {IF row \in hit
                        THEN [row EXCEPT !.json_response = json, !.update_date = t]
                        ELSE row : row \in rows},
              err |-> FALSE]
        ELSE IF ~ValuesParse(values) THEN [rows |-> rows, err |-> TRUE]
        ELSE LET id == values.items[1].text
                 type == values.items[3].text[1]
             IN  [rows |-> ExecInsert(rows, id, type, values.items[5].text[1], t),
                  err |-> ~InsertOk(rows, id, type)]

\* SQLite Cloud variant of StoreEngagement
Cloud_StoreRows(rows, ch, kind, json, t) ==
    IF SelectCount(rows, ch, kind) > 0
    THEN [rows |-> ExecUpdate(rows, ch, kind, json, t), err |-> FALSE]
    ELSE [rows |-> ExecInsert(rows, ch, kind, json, t),
          err |-> ~InsertOk(rows, ch, kind)]

NoStoreCall ==
    [variant |-> "", calls |-> 0, ch |-> <<>>, kind |-> "", before |-> {},
     err |-> FALSE]

CLI_StoreEngagementCall(ch, kind, json) ==
    /\ call.variant = "cli"
    /\ call.calls < MaxStores
    /\ LET res == CLI_StoreRows(store, ch, kind, json, now)
       IN  /\ store' = res.rows
           /\ call' = [call EXCEPT !.calls = @ + 1, !.ch = ch, !.kind = kind,
                                   !.before = store, !.err = res.err]
    /\ UNCHANGED <<now, req, lastWrite, trip>>

Cloud_StoreEngagementCall(ch, kind, json) ==
    /\ call.variant = "cloud"
    /\ call.calls < MaxStores
    /\ LET res == Cloud_StoreRows(store, ch, kind, json, now)
       IN  /\ store' = res.rows
           /\ call' = [call EXCEPT !.calls = @ + 1, !.ch = ch, !.kind = kind,
                                   !.before = store, !.err = res.err]
    /\ UNCHANGED <<now, req, lastWrite, trip>>

InitFrame ==
    /\ now = FirstInstant
    /\ store = {}
    /\ req = [r \in Requests |-> IdleRequest]
    /\ lastWrite = [k \in Keys |-> 0]
    /\ \E v \in {"cli", "cloud"} : call = [NoStoreCall EXCEPT !.variant = v]
    /\ trip = NoTrip

NextFrame ==
    \/ \E ch \in FrameChannels, kind \in Kinds, json \in FramePayloads :
           CLI_StoreEngagementCall(ch, kind, json)
    \/ \E ch \in FrameChannels, kind \in Kinds, json \in FramePayloads :
           Cloud_StoreEngagementCall(ch, kind, json)
    \/ Tick

SpecFrame == InitFrame /\ [][NextFrame]_vars

\* ------------------------------------------------------------------ claims
\* vocabulary of the claims, stated on the table and the clock alone
RowsOf(r) == Matching(store, req[r].channelID, req[r].kind)
Decodes(p, kind) == p.syntax = "object" /\ p.object.type = kind
SawSnapshotOfToday(r) ==
    req[r].pc # "idle" /\ req[r].seen # NilRow /\ req[r].seenToday
SawStaleSnapshot(r) ==
    req[r].pc # "idle" /\ req[r].seen # NilRow /\ ~req[r].seenToday
SawNoSnapshot(r) == req[r].pc # "idle" /\ req[r].seen = NilRow
ServedFromStore(r) ==
    /\ req[r].pc = "done"
    /\ req[r].status = 200
    /\ req[r].body = req[r].seen.json_response.object
    /\ req[r].fetches = 0
    /\ req[r].stores = 0
FreshToday(ch, kind) ==
    \E row \in Matching(store, ch, kind) :
        SameUTCDay(row.update_date, now) /\ Decodes(row.json_response, kind)

\* C1 (as amended): a request that reads a snapshot of its key whose
\* update_date is on the current UTC day and whose payload decodes answers 200
\* with the stored snapshot and makes no upstream fetch, no recomputation and
\* no StoreEngagement call.
C1_CacheHit ==
    \A r \in Requests :
        (SawSnapshotOfToday(r) /\ Decodes(req[r].seen.json_response, req[r].kind))
            => ServedFromStore(r)

C1_Witness ==
    \E r \in Requests :
        /\ SawSnapshotOfToday(r)
        /\ Decodes(req[r].seen.json_response, req[r].kind)
        /\ req[r].pc = "done"

\* C1 as stated: every request that reads a snapshot of the current UTC day is
\* served from the store. A row of today whose payload does not decode is
\* recomputed instead.
C1_AsStated == \A r \in Requests : SawSnapshotOfToday(r) => ServedFromStore(r)

\* C2: a request that reads a snapshot of an earlier UTC day makes exactly one
\* recomputation and exactly one StoreEngagement call, and that call updates
\* the row of the key in place: the key keeps a single row, with the id and
\* the create_date it had.
C2_StaleRecompute ==
    \A r \in Requests :
        (SawStaleSnapshot(r) /\ req[r].pc = "done") =>
            /\ req[r].status = 200
            /\ req[r].fetches = 1
            /\ req[r].stores = 1
            /\ req[r].op = "UPDATE"
            /\ ~req[r].storeErr
            /\ Cardinality(RowsOf(r)) = 1
            /\ \A row \in RowsOf(r) :
                /\ row.id = req[r].seen.id
                /\ row.create_date = req[r].seen.create_date
                /\ row.update_date > req[r].seen.update_date
            /\ Cardinality(store) <= Cardinality(Keys)

C2_Witness ==
    \E r \in Requests :
        SawStaleSnapshot(r) /\ req[r].pc = "done" /\ req[r].op = "UPDATE"

\* C3: in every reachable state, under every interleaving of the existence
\* checks and the UPDATE or INSERT statements of any number of StoreEngagement
\* calls, the table holds at most one row per (channel_id, engagement_type).
C3_OneRowPerKey ==
    \A k \in Keys : Cardinality(Matching(store, k[1], k[2])) <= 1

\* two calls on one key both saw no row and both ran their INSERT
C3_Witness ==
    \E r1 \in Requests : \E r2 \in Requests :
        /\ r1 # r2
        /\ req[r1].channelID = req[r2].channelID /\ req[r1].kind = req[r2].kind
        /\ req[r1].pc = "done" /\ req[r2].pc = "done"
        /\ req[r1].op = "INSERT" /\ req[r2].op = "INSERT"

\* C4: a request that reads a snapshot of the current UTC day whose payload
\* fails to decode is never answered with an error: it goes on to recompute,
\* persists the new result over the row, and answers 200 with the freshly
\* computed result.
C4_UndecodableFallsThrough ==
    \A r \in Requests :
        (SawSnapshotOfToday(r) /\ ~Decodes(req[r].seen.json_response, req[r].kind)) =>
            /\ req[r].pc \in {"fetch", "store_exec", "done"}
            /\ req[r].status # 500
            /\ req[r].pc = "done" =>
                /\ req[r].status = 200
                /\ req[r].fetches = 1
                /\ req[r].stores = 1
                /\ req[r].op = "UPDATE" /\ ~req[r].storeErr
                /\ req[r].body = req[r].result
                /\ req[r].body.type = req[r].kind
                /\ \A row \in RowsOf(r) : Decodes(row.json_response, req[r].kind)

C4_Witness ==
    \E r \in Requests :
        /\ SawSnapshotOfToday(r)
        /\ ~Decodes(req[r].seen.json_response, req[r].kind)
        /\ req[r].pc = "done"

C6_AsStated ==
    \A r1 \in Requests : \A r2 \in Requests :
        (/\ r1 # r2
         /\ req[r1].channelID = req[r2].channelID /\ req[r1].kind = req[r2].kind
         /\ req[r1].pc = "done" /\ req[r2].pc = "done"
         /\ ~SawSnapshotOfToday(r1) /\ ~SawSnapshotOfToday(r2)) =>
            /\ req[r1].fetches = 1 /\ req[r2].fetches = 1
            /\ ~req[r1].storeErr /\ ~req[r2].storeErr
            /\ \A row \in RowsOf(r1) :
                row.json_response =
                    req[lastWrite[<<req[r1].channelID, req[r1].kind>>]].jsonData

\* C7 as stated: once StoreEngagement succeeded with a payload text, the
\* GetLatestEngagement that follows returns that text exactly, whatever
\* characters ('|', quotes) it holds, in both Database variants. The sqlite3
\* CLI variant splits the output line on '|' and rejects the row when the
\* text holds one.
C7_AsStated ==
    (trip.stage = "read" /\ ~trip.storeErr) =>
        (~trip.readErr /\ trip.got = trip.payload)

\* C8 as stated: analytics over an empty video set is an error in every call
\* path: a request whose fetch returned no video has no result, answers no
\* 200 and persists nothing. YouTubeAPI.getChannelAnalytics returns a
\* zero-valued ChannelAnalytics, which the handler stores and serves.
C8_AsStated ==
    \A r \in Requests :
        (req[r].kind = "analytics" /\ req[r].fetches = 1 /\ req[r].fetched = 0) =>
            /\ req[r].result = NoResult
            /\ req[r].pc = "done"
            /\ req[r].status # 200
            /\ req[r].stores = 0

\* C9: a trends computation over an empty video list reports no error and
\* returns either no result at all (YouTubeClient.GetChannelTrends) or a
\* result with no trending video, no performance point, no rolling average
\* and zero buckets (YouTubeAPI.getChannelTrends).
C9_EmptyTrends ==
    (call.fn \in {"Server.getChannelTrends", "YouTubeAPI.getChannelTrends"}
        /\ Len(call.videos) = 0) =>
        /\ ~call.err
        /\ IF call.out.type = "none" THEN TRUE
           ELSE /\ call.out.type = "trends"
                /\ call.out.TrendingVideos = <<>>
                /\ call.out.PerformanceOverTime = <<>>
                /\ call.out.RollingAverages = <<>>
                /\ \A i \in DOMAIN call.out.UploadFrequencyWeekly :
                    call.out.UploadFrequencyWeekly[i].Count = 0
                /\ \A i \in DOMAIN call.out.UploadFrequencyMonthly :
                    call.out.UploadFrequencyMonthly[i].Count = 0
                /\ \A i \in DOMAIN call.out.EngagementTrendsWeekly :
                    call.out.EngagementTrendsWeekly[i].AverageViews = FloatZero
                /\ \A i \in DOMAIN call.out.EngagementTrendsMonthly :
                    call.out.EngagementTrendsMonthly[i].AverageViews = FloatZero

C9_Witness ==
    /\ call.fn \in {"Server.getChannelTrends", "YouTubeAPI.getChannelTrends"}
    /\ Len(call.videos) = 0
    /\ ~call.err

\* C10 as stated: an analytics computation over a non-empty list whose total
\* views are 0 reports both ratios as exactly 0. YouTubeClient.GetChannelAnalytics
\* divides by the zero total and reports NaN.
C10_AsStated ==
    (call.fn \in {"Server.getChannelAnalytics", "YouTubeAPI.getChannelAnalytics"}
        /\ Len(call.videos) > 0 /\ SumViews(call.videos) = 0) =>
        /\ ~call.err
        /\ call.out.LikeToViewRatio = FloatZero
        /\ call.out.CommentToViewRatio = FloatZero

\* f is the float64 quotient a / b of a non-negative a by a positive b
IsQuotient(f, a, b) ==
    /\ f.kind = "num"
    /\ f.d > 0
    /\ f.n >= 0
    /\ f.n * b = a * f.d

\* C11: an analytics computation over a non-empty list whose total views are
\* positive succeeds and reports TotalVideos = |V|, averageViews =
\* sum(views) / |V|, likeToViewRatio = sum(likes) / sum(views) and
\* commentToViewRatio = sum(comments) / sum(views), none of them negative,
\* in both engines.
C11_Aggregates ==
    LET V == call.videos
        views == SumInts([i \in DOMAIN V |-> V[i].Views])
        likes == SumInts([i \in DOMAIN V |-> V[i].Likes])
        comments == SumInts([i \in DOMAIN V |-> V[i].Comments])
    IN  (call.stage # "" /\ Len(V) > 0 /\ views > 0) =>
            /\ ~call.err
            /\ call.analytics.type = "analytics"
            /\ call.analytics.TotalVideos = Len(V)
            /\ IsQuotient(call.analytics.AverageViews, views, Len(V))
            /\ IsQuotient(call.analytics.LikeToViewRatio, likes, views)
            /\ IsQuotient(call.analytics.CommentToViewRatio, comments, views)

C11_Witness ==
    /\ call.stage = "analytics"
    /\ call.path = "api"
    /\ Len(call.videos) = 3
    /\ call.analytics.TotalVideos = 3
    /\ call.analytics.LikeToViewRatio # FloatZero
    /\ call.analytics.CommentToViewRatio # FloatZero
    /\ call.analytics.LikeToViewRatio # call.analytics.CommentToViewRatio

\* C12 as stated: for every video, one with 0 views included,
\* Video.EngagementScore() equals 1 * views + 2 * likes + 3 * comments.
\* The method returns 0 for a video with 0 views whatever its likes and
\* comments.
C12_AsStated ==
    call.scored # 0 =>
        LET v == call.input[call.scored]
        IN  call.score = 1 * v.Views + 2 * v.Likes + 3 * v.Comments

\* the weighted sum of the engagement score: 1.0, 2.0 and 3.0 are its weights
WeightedScore(v) == 1 * v.Views + 2 * v.Likes + 3 * v.Comments

\* C13 as stated: the analytics top-engaging list has exactly min(5, n) of the
\* n videos, in non-increasing order of 1 * views + 2 * likes + 3 * comments,
\* and no video left out has a higher score than one in the list, in both
\* engines. YouTubeAPI.getChannelAnalytics orders by views + likes + comments.
C13_AsStated ==
    (call.stage # "" /\ call.analytics.type = "analytics") =>
        LET top == call.analytics.TopEngagingVideos
            V == call.videos
        IN  /\ Len(top) = Min(TopN, Len(V))
            /\ \A i \in DOMAIN top : \E k \in DOMAIN V : V[k] = top[i]
            /\ \A i, j \in DOMAIN top :
                i < j => WeightedScore(top[i]) >= WeightedScore(top[j])
            /\ \A k \in DOMAIN V :
                (\A i \in DOMAIN top : top[i] # V[k]) =>
                    \A i \in DOMAIN top : WeightedScore(V[k]) <= WeightedScore(top[i])

\* the videos of top that have equal engagement scores keep the order in
\* which their upload dates stand in the sequence dates
TiesInInputOrder(top, dates) ==
    \A i, j \in DOMAIN top :
        (i < j /\ EngagementScore(top[i]) = EngagementScore(top[j])) =>
            \E a, b \in DOMAIN dates :
                /\ a < b
                /\ dates[a] = top[i].UploadDate
                /\ dates[b] = top[j].UploadDate

\* C14 as stated: the top-5 selection is stable and deterministic: videos of
\* equal engagement score appear in the order of the list the selection was
\* handed (the fetched list of YouTubeClient.GetChannelAnalytics, the
\* date-ordered list of YouTubeAPI.getChannelTrends), so that a second run
\* on the same list gives the same top-5. The engines order with sort.Slice,
\* which leaves equal elements in any order.
C14_AsStated ==
    /\ (call.stage # "" /\ call.path = "client" /\ call.analytics.type = "analytics") =>
        TiesInInputOrder(call.analytics.TopEngagingVideos, DateKeys(call.videos))
    /\ (call.stage = "trends" /\ call.path = "api") =>
        TiesInInputOrder(call.trends.TrendingVideos,
                         [i \in DOMAIN call.trends.PerformanceOverTime |->
                             call.trends.PerformanceOverTime[i].UploadDate])

\* C15 as stated: over the same videos the trending list of the trends
\* engine is the top-engaging list of the analytics engine of the same path:
\* same videos, same order. YouTubeAPI.getChannelAnalytics orders by
\* views + likes + comments, YouTubeAPI.getChannelTrends by EngagementScore().
C15_AsStated ==
    (call.stage = "trends" /\ call.analytics.type = "analytics"
        /\ call.trends.type = "trends") =>
        call.trends.TrendingVideos = call.analytics.TopEngagingVideos

\* C16 as stated: over a non-empty list the analytics TimeRange runs from
\* the calendar date of the earliest upload to the calendar date of the
\* latest. Both engines read the two dates off the ends of the list after
\* ordering it by engagement.
C16_AsStated ==
    (call.stage # "" /\ call.analytics.type = "analytics" /\ Len(call.videos) > 0) =>
        LET dates == {call.videos[i].UploadDate : i \in DOMAIN call.videos}
            first == CHOOSE t \in dates : \A u \in dates : t <= u
            last == CHOOSE t \in dates : \A u \in dates : t >= u
        IN  /\ call.analytics.TimeRange.StartDate = DateStr(first)
            /\ call.analytics.TimeRange.EndDate = DateStr(last)

\* the provider's numbers of the record a listed video was made from, and
\* the records of the channel that meet the filter's minimum counts
RawOf(v) == call.items[v.ID]
Qualifies(r) ==
    /\ r.ViewCount.val >= call.filter.MinViews
    /\ r.LikeCount.val >= call.filter.MinLikes
Listed(r) == \E k \in DOMAIN call.videos : call.videos[k].ID = r.Id
\* the sort key of a record under the filter's sort option
RawKey(r) ==
    CASE call.filter.SortBy = "views" -> r.ViewCount.val
      [] call.filter.SortBy = "likes" -> r.LikeCount.val
      [] OTHER -> r.PublishedAt

\* C17 as stated: a fetched video is in the video-list result only if its
\* views >= MinViews and its likes >= MinLikes, and every fetched video
\* meeting both is in the result unless the cut to MaxVideos removed it.
\* YouTubeClient.GetChannelVideos tests counts that its conversion left at 0.
C17_AsStated ==
    (call.stage = "done" /\ ~call.err) =>
        /\ \A k \in DOMAIN call.videos : Qualifies(RawOf(call.videos[k]))
        /\ \A i \in DOMAIN call.items :
            ((call.path = "api" \/ i <= call.filter.MaxVideos)
                /\ Qualifies(call.items[i])) =>
                (Listed(call.items[i]) \/ Len(call.videos) >= call.filter.MaxVideos)

\* C18 as stated: the conversion of a provider record succeeds and gives
\* each count the record's numeric value, whether encoded as a decimal
\* string or as a number, 0 for an absent field, never a negative count,
\* and the record's publish time. YouTubeClient.GetChannelVideos asserts
\* uint64 on the string fields of models.VideoListResponse: every count is 0.
C18_AsStated ==
    call.stage = "done" =>
        /\ ~call.err
        /\ \A k \in DOMAIN call.videos :
            LET v == call.videos[k]
            IN  /\ v.Views = RawOf(v).ViewCount.val
                /\ v.Likes = RawOf(v).LikeCount.val
                /\ v.Comments = RawOf(v).CommentCount.val
                /\ v.Views >= 0 /\ v.Likes >= 0 /\ v.Comments >= 0
                /\ v.UploadDate = RawOf(v).PublishedAt

\* C19 as stated: the video-list result is the first MaxVideos of the
\* channel's videos that meet the minimum counts, sorted by the filter's
\* option in descending order: it is sorted, holds at most MaxVideos videos,
\* and leaves out a qualifying video only when it returns MaxVideos videos
\* that rank at least as high. YouTubeClient.GetChannelVideos cuts the
\* playlist to MaxVideos before it filters and sorts.
C19_AsStated ==
    (call.stage = "done" /\ ~call.err) =>
        /\ Len(call.videos) <= call.filter.MaxVideos
        /\ \A i, j \in DOMAIN call.videos :
            i < j => RawKey(RawOf(call.videos[i])) >= RawKey(RawOf(call.videos[j]))
        /\ \A i \in DOMAIN call.items :
            (Qualifies(call.items[i]) /\ ~Listed(call.items[i])) =>
                /\ Len(call.videos) = call.filter.MaxVideos
                /\ \A k \in DOMAIN call.videos :
                    RawKey(RawOf(call.videos[k])) >= RawKey(call.items[i])

\* C20 as stated: when a request of the fetch (channel lookup, playlist
\* page, detail batch) got no answer or a non-success status, the fetch
\* returns an error and no list, and sends no further request.
\* YouTubeClient.GetChannelVideos never reads the status of an answer.
C20_AsStated ==
    (call.pc = "done" /\ call.failed) =>
        /\ call.err
        /\ call.videos = <<>>
        /\ call.requests = call.failedAt

\* C21: a cache-gated request answers with a complete result (200 with the
\* stored snapshot or with the whole computed result) or with an error (500
\* and no result), never with both or with a part; a request whose fetch or
\* computation failed answers with the error, makes no StoreEngagement call
\* and writes no row.
C21_ResultOrError ==
    \A r \in Requests :
        req[r].pc = "done" =>
            /\ \/ /\ req[r].status = 200
                  /\ req[r].body.type = req[r].kind
                  /\ \/ req[r].body = req[r].result
                     \/ ServedFromStore(r)
               \/ /\ req[r].status = 500
                  /\ req[r].body.type \notin Kinds
            /\ "fetch" \in call[r] =>
                /\ req[r].status = 500
                /\ req[r].body = ErrorBody
                /\ req[r].stores = 0
                /\ req[r].op = ""
                /\ \A k \in Keys : lastWrite[k] # r

C21_Witness ==
    \E r \in Requests :
        /\ req[r].pc = "done"
        /\ "fetch" \in call[r]
        /\ req[r].status = 500
        /\ SawStaleSnapshot(r)
        /\ RowsOf(r) = {req[r].seen}

\* C22 as stated: of the errors met during a cache-gated request only a
\* decode failure of the cached payload goes without an error response; a
\* failed cache read and a failed snapshot store are answered with an error.
\* The handlers log both and answer 200.
C22_AsStated ==
    \A r \in Requests :
        (req[r].pc = "done" /\ (call[r] # {} \/ req[r].storeErr)) =>
            /\ req[r].status >= 400
            /\ req[r].body.type \notin Kinds

\* C23: ExtractChannelIDFromURL ends every URL in exactly one outcome. A
\* /channel/<id> URL returns <id> and sends no request; a /c/<name> or
\* /user/<name> URL sends exactly one custom-URL lookup; a /@<handle> URL
\* sends the handle lookup first and the search only after a lookup that
\* answered with no item, and a title that differs from the handle gives a
\* warning together with the id of the first search result; a youtu.be URL
\* and every other URL return an error, no id, and send no request.
OnYouTube(u) == u.parsed /\ u.host = "www.youtube.com"
ChannelShape(u) == OnYouTube(u) /\ HasPrefix(u.path, <<"/", "channel", "/">>)
CustomShape(u) ==
    /\ OnYouTube(u)
    /\ \/ HasPrefix(u.path, <<"/", "c", "/">>)
       \/ HasPrefix(u.path, <<"/", "user", "/">>)
HandleShape(u) == OnYouTube(u) /\ HasPrefix(u.path, <<"/", "@">>)
RequestKinds(c) == [i \in 1..Len(c.requests) |-> c.requests[i].kind]

C23_OneOutcome ==
    call.pc = "done" =>
        LET u == call.url
            q == call.requests
        IN  /\ (call.err = "") # (call.id = <<>> /\ call.err # "")
            /\ ChannelShape(u) =>
                   /\ call.err = ""
                   /\ call.id = SubSeq(u.path, 4, Len(u.path))
                   /\ q = <<>>
            /\ CustomShape(u) =>
                   /\ RequestKinds(call) = <<"forUsername">>
                   /\ call.err = "" <=> (q[1].outcome = "ok" /\ q[1].items > 0)
                   /\ call.err = "" => call.id \in ProviderIDs
            /\ HandleShape(u) =>
                   /\ RequestKinds(call) \in
                          {<<"forHandle">>, <<"forHandle", "search">>,
                           <<"forHandle", "search", "id">>}
                   /\ Len(q) > 1 => (q[1].outcome = "ok" /\ q[1].items = 0)
                   /\ (Len(q) = 1 /\ q[1].outcome = "ok") => call.err = ""
                   /\ call.warned => (call.err = "" /\ Len(q) = 3)
                   /\ call.err = "" => call.id \in ProviderIDs
            /\ ~(ChannelShape(u) \/ CustomShape(u) \/ HandleShape(u)) =>
                   /\ call.err # ""
                   /\ call.id = <<>>
                   /\ q = <<>>

C23_Witness ==
    /\ call.pc = "done"
    /\ HandleShape(call.url)
    /\ Len(call.requests) = 3
    /\ call.warned
    /\ call.err = ""
    /\ call.id \in ProviderIDs

\* C24: the filter parsed from the query has MaxVideos = 50 when maxVideos is
\* missing, not a number or not positive, and the number given otherwise;
\* SortBy is recency unless sortBy is views or likes; MinViews / MinLikes are
\* 0 when the parameter is missing or not a number; MaxVideos is at least 1;
\* and an error response comes from the upstream only, whatever the query.
IsNumber(s) ==
    \E digits \in (UNION {[1..n -> Digits] : n \in 1..(MaxQueryLen + 1)}) :
        s = digits \/ s = <<"-">> \o digits
Parsed == call.pc \in {"fetch", "done"} /\ call.filter.SortBy # ""

C24_FilterDefaults ==
    Parsed =>
        LET q == call.query
            f == call.filter
        IN  /\ f.MaxVideos >= 1
            /\ (~IsNumber(q.maxVideos) \/ ParseInt(q.maxVideos) <= 0)
                   => f.MaxVideos = DefaultMaxVideos
            /\ (IsNumber(q.maxVideos) /\ ParseInt(q.maxVideos) > 0)
                   => f.MaxVideos = ParseInt(q.maxVideos)
            /\ q.sortBy \notin {"views", "likes", "recency"} => f.SortBy = "recency"
            /\ q.sortBy \in {"views", "likes", "recency"} => f.SortBy = q.sortBy
            /\ ~IsNumber(q.minViews) => f.MinViews = 0
            /\ ~IsNumber(q.minLikes) => f.MinLikes = 0
            /\ (call.pc = "done" /\ call.fetchOk) => call.status = 200

C24_Witness ==
    /\ call.pc = "done"
    /\ call.status = 200
    /\ call.query.sortBy = "rating"
    /\ call.query.maxVideos = <<"-", "1">>
    /\ call.query.minViews = <<"a">>
    /\ call.filter.MaxVideos = DefaultMaxVideos
    /\ call.filter.SortBy = "recency"
    /\ call.filter.MinViews = 0

\* C25: of two videos that differ in one of views, likes, comments only, the
\* one with the higher count has an engagement score at least as high; this
\* includes the step from 0 views to 1 view or more.
BothScored == call.scored = {"low", "high"}

C25_Monotone == BothScored => call.lowScore <= call.highScore

C25_Witness ==
    /\ BothScored
    /\ call.field = "Views"
    /\ call.low.Views = 0
    /\ call.high.Views = 1
    /\ call.low.Likes > 0
    /\ call.lowScore = 0
    /\ call.highScore > 0

\* C26: every video-detail request carries at most 50 video ids (BatchSize,
\* the page size of the provider), and at least one, whatever the number of
\* uploads and MaxVideos, in YouTubeClient.GetChannelVideos and in
\* YouTubeAPI.getAllVideos.
DetailSent == call.detail # <<>>

C26_BatchLimit ==
    /\ Len(call.detail) <= BatchSize
    /\ (call.batch > 1 \/ Len(call.videos) > 0) => DetailSent

C26_Witness ==
    /\ call.path = "client"
    /\ call.pc = "done"
    /\ ~call.err
    /\ Len(call.ids) > BatchSize
    /\ Len(call.detail) >= 1
    /\ call.batch > 2

\* C27: over a list of n videos the rolling averages are n entries with
\* UploadIndex 0..n-1 in order; entry i is the mean of the views at indices
\* [max(0, i-9), i] in YouTubeClient.GetChannelTrends and at indices
\* [i, min(n, i+7)) in YouTubeAPI.getChannelTrends; the window holds between 1
\* and 10 (resp. 7) videos and the mean is a finite number.
TrendsDone == call.pc = "done" /\ call.trends # NoResult
\* the views of the list the engine worked on, in its order
ViewsAt(k) == call.trends.PerformanceOverTime[k].Views
WindowLow(k) ==
    IF call.path = "client" THEN (IF k - 9 < 1 THEN 1 ELSE k - 9) ELSE k
WindowHigh(k, n) ==
    IF call.path = "client" THEN k ELSE (IF k + 6 > n THEN n ELSE k + 6)
WindowLimit == IF call.path = "client" THEN 10 ELSE 7

C27_RollingWindows ==
    /\ (call.pc = "done" /\ call.trends = NoResult) =>
           (call.path = "client" /\ call.input = <<>>)
    /\ TrendsDone =>
        LET rolling == call.trends.RollingAverages
            n == Len(call.input)
        IN  /\ Len(call.trends.PerformanceOverTime) = n
            /\ Len(rolling) = n
            /\ \A k \in 1..n :
                LET lo == WindowLow(k)
                    hi == WindowHigh(k, n)
                    size == hi - lo + 1
                    total == SumInts([j \in 1..size |-> ViewsAt(lo + j - 1)])
                IN  /\ rolling[k].UploadIndex = k - 1
                    /\ size >= 1
                    /\ size <= WindowLimit
                    /\ IsFinite(rolling[k].AverageViews)
                    /\ rolling[k].AverageViews.n * size
                           = total * rolling[k].AverageViews.d

C27_Witness ==
    /\ TrendsDone
    /\ call.path = "client"
    /\ Len(call.trends.RollingAverages) > 10
    /\ call.trends.RollingAverages[11].AverageViews
           # Float(SumInts([j \in 1..11 |-> ViewsAt(j)]), 11)

\* C28: in YouTubeClient.GetChannelTrends the weekly and the monthly upload
\* frequencies hold one entry per week (month) in which a video was uploaded,
\* with distinct keys, the count of an entry is the number of input videos
\* uploaded in that week (month) and is at least 1, the counts add up to the
\* number of videos, and the engagement trends have the same keys.
DaysPerBucket(period) == IF period = "week" THEN 7 ELSE MonthDays
InBucket(t, key) ==
    /\ FormatDate(t) >= key.index * DaysPerBucket(key.period)
    /\ FormatDate(t) < (key.index + 1) * DaysPerBucket(key.period)
RECURSIVE CountTotal(_)
CountTotal(entries) ==
    IF entries = {} THEN 0
    ELSE LET e == CHOOSE x \in entries : TRUE
         IN  e.Count + CountTotal(entries \ {e})
FrequenciesOf(period) ==
    IF period = "week" THEN call.trends.UploadFrequencyWeekly
    ELSE call.trends.UploadFrequencyMonthly
EngagementOf(period) ==
    IF period = "week" THEN call.trends.EngagementTrendsWeekly
    ELSE call.trends.EngagementTrendsMonthly

C28_UploadBuckets ==
    (TrendsDone /\ call.path = "client") =>
        \A period \in {"week", "month"} :
            LET freq == FrequenciesOf(period)
                n == Len(call.input)
            IN  /\ \A e \in freq :
                    /\ e.Period.period = period
                    /\ e.Count >= 1
                    /\ e.Count = Cardinality({i \in 1..n :
                                      InBucket(call.input[i].UploadDate, e.Period)})
                /\ \A e \in freq, f \in freq : e.Period = f.Period => e = f
                /\ CountTotal(freq) = n
                /\ {e.Period : e \in EngagementOf(period)} = {e.Period : e \in freq}
                /\ Cardinality(EngagementOf(period)) = Cardinality(freq)

C28_Witness ==
    /\ TrendsDone
    /\ call.path = "client"
    /\ Cardinality(FrequenciesOf("week")) >= 2
    /\ \E e \in FrequenciesOf("week") : e.Count >= 2
    /\ \E e \in FrequenciesOf("month") : e.Count >= 2

\* C29 as stated: a StoreEngagement call for (channel, kind) deletes no row,
\* leaves create_date of every row as it was, and leaves every row of another
\* (channel, kind) exactly as it was, in both Database variants. The sqlite3
\* CLI variant formats the channel id into the WHERE clause unescaped.
RowsBefore == call.before
OfCalledKey(row) ==
    row.channel_id = call.ch /\ row.engagement_type = call.kind

C29_AsStated ==
    call.calls > 0 =>
        \A row \in RowsBefore :
            /\ \E kept \in store :
                /\ kept.id = row.id
                /\ kept.channel_id = row.channel_id
                /\ kept.engagement_type = row.engagement_type
                /\ kept.create_date = row.create_date
            /\ ~OfCalledKey(row) => row \in store

\* C30 as stated: over a finite chain of pages the paging loop of each fetch
\* path ends, the last page it requests being the first page with no next
\* page token or, in YouTubeClient.GetChannelVideos, the first page at which
\* the collected ids reach MaxVideos, and no page is requested beyond that
\* one. YouTubeAPI.getAllVideos also leaves the loop at a page with no items.
CollectedThrough(k) == SumInts(SubSeq(call.uploads, 1, k))
StopsAt(k) ==
    \/ ~HasNextPage(call.uploads, k)
    \/ call.path = "client" /\ CollectedThrough(k) >= call.maxVideos
FirstStopPage ==
    CHOOSE k \in 1..Len(call.uploads) :
        StopsAt(k) /\ \A j \in 1..(k - 1) : ~StopsAt(j)

C30_AsStated ==
    /\ call.lastPage <= FirstStopPage
    /\ (call.pc = "done" /\ ~call.failed) => call.lastPage = FirstStopPage

====
